---------------------------- MODULE Spec2Model ----------------------------
(***************************************************************************)
(* msk_admin: the topic administration client (kafka_admin.py), the topic  *)
(* configuration profiles (topic_profiles.py) and the retry decorators     *)
(* around every operation.                                                 *)
(*                                                                         *)
(* One client instance is used sequentially.  An invocation of an          *)
(* operation runs as a sequence of steps: the local prefix of an attempt,  *)
(* the attempts of the nested list_topics call, the submission of the      *)
(* mutating request.  The cluster and the outcome of every remote call are *)
(* the environment: each remote call nondeterministically succeeds or      *)
(* fails.                                                                  *)
(***************************************************************************)
EXTENDS Integers, Sequences, FiniteSets, TLC

VARIABLES
  cluster,       \* the cluster's topics: name -> topic record, or NoTopic
  settings,      \* KafkaAdmin.settings (defaults read at construction)
  admin_client,  \* KafkaAdmin._admin_client: "None" or "AdminClient"
  pc,            \* position of the running invocation
  call,          \* the running (or last) invocation: operation and arguments
  attempt,       \* attempt number of the invocation's own retry decorator
  lattempt,      \* attempt number of the nested list_topics retry decorator
  stats,         \* what the invocation has done remotely so far
  result,        \* outcome handed to the caller
  before,        \* cluster and admin_client as the invocation found them
  made,          \* per name: what this client's requests did to the topic
  focus,         \* the topic name the caller works on
  constructed,   \* how many connections each client instance has built
  registry,      \* the schema registry: name -> schema record
  glue_client,   \* SchemaRegistry._glue_client: "None" or "GlueClient"
  heap,          \* the dict objects: those of TOPIC_PROFILES (under the
                 \* profile's name) and those the caller holds
  client_api,    \* the configuration-change methods the installed
                 \* AdminClient class has
  process,       \* the command-line process: whether it has ended, what it
                 \* printed and its exit code
  peer           \* the second client, when there is one: its own pc, call,
                 \* attempt, lattempt, stats, result, before, admin_client
                 \* and constructed, while the other client takes its steps

vars == <<cluster, settings, admin_client, pc, call, attempt, lattempt, stats,
         result, before, made, focus, constructed, registry, glue_client,
         heap, client_api, process, peer>>

-----------------------------------------------------------------------------
(* Python values.  A configuration value carries its Python type and its   *)
(* literal, so that str(value) is a real conversion.  Optional[int] is the *)
(* empty tuple (None) or a one-element tuple.                              *)

IntV(lit)   == <<"int", lit>>
StrV(lit)   == <<"str", lit>>
BoolV(lit)  == <<"bool", lit>>
FloatV(lit) == <<"float", lit>>

None == << >>
Some(n) == <<n>>

\* The integers whose decimal literal the model reads back.
SmallInts == -1 .. 9

\* int(literal) for the literals of SmallInts.
IntOfLit(lit) == CHOOSE n \in SmallInts : ToString(n) = lit

IsSmallLit(lit) == \E n \in SmallInts : ToString(n) = lit

\* str(value): ConfigEntry(key, str(value)) in alter_topic_config.
PyStr(v) == StrV(v[2])

\* `x or default` on an Optional[int]: None and 0 are falsy.
OrDefault(x, default) == IF x = None \/ x[1] = 0 THEN default ELSE x[1]

\* An exception: its class, the fragments of str(e), and the exception at
\* the end of its __context__ / __cause__ chain (itself, when it was not
\* raised while another one was handled).
Error(type, msg) ==
  [type |-> type, msg |-> msg, root |-> [type |-> type, msg |-> msg]]

\* An exception raised while e is handled (or `from` e).
Chained(type, msg, e) == [type |-> type, msg |-> msg, root |-> e.root]

-----------------------------------------------------------------------------
(* topic_profiles.py                                                       *)

GeneralThroughput ==
  [k \in {"min.insync.replicas", "unclean.leader.election.enable",
          "compression.type", "retention.ms", "segment.ms", "segment.bytes",
          "message.timestamp.type", "max.message.bytes",
          "delete.retention.ms", "file.delete.delay.ms",
          "replica.lag.time.max.ms"} |->
     CASE k = "min.insync.replicas"            -> IntV("2")
       [] k = "unclean.leader.election.enable" -> BoolV("False")
       [] k = "compression.type"               -> StrV("snappy")
       [] k = "retention.ms"                   -> IntV("259200000")
       [] k = "segment.ms"                     -> IntV("3600000")
       [] k = "segment.bytes"                  -> IntV("1073741824")
       [] k = "message.timestamp.type"         -> StrV("CreateTime")
       [] k = "max.message.bytes"              -> IntV("1048576")
       [] k = "delete.retention.ms"            -> IntV("86400000")
       [] k = "file.delete.delay.ms"           -> IntV("60000")
       [] k = "replica.lag.time.max.ms"        -> IntV("30000")]

LowLatency ==
  [k \in {"min.insync.replicas", "unclean.leader.election.enable",
          "compression.type", "segment.ms", "segment.bytes", "retention.ms",
          "message.timestamp.type", "max.message.bytes",
          "delete.retention.ms", "file.delete.delay.ms",
          "replica.lag.time.max.ms"} |->
     CASE k = "min.insync.replicas"            -> IntV("1")
       [] k = "unclean.leader.election.enable" -> BoolV("False")
       [] k = "compression.type"               -> StrV("lz4")
       [] k = "segment.ms"                     -> IntV("1800000")
       [] k = "segment.bytes"                  -> IntV("536870912")
       [] k = "retention.ms"                   -> IntV("86400000")
       [] k = "message.timestamp.type"         -> StrV("CreateTime")
       [] k = "max.message.bytes"              -> IntV("1048576")
       [] k = "delete.retention.ms"            -> IntV("3600000")
       [] k = "file.delete.delay.ms"           -> IntV("30000")
       [] k = "replica.lag.time.max.ms"        -> IntV("10000")]

CompactionLog ==
  [k \in {"cleanup.policy", "min.cleanable.dirty.ratio",
          "min.compaction.lag.ms", "max.compaction.lag.ms",
          "min.insync.replicas", "unclean.leader.election.enable",
          "compression.type", "segment.ms", "segment.bytes",
          "delete.retention.ms", "message.timestamp.type",
          "max.message.bytes", "segment.index.bytes",
          "file.delete.delay.ms"} |->
     CASE k = "cleanup.policy"                 -> StrV("compact")
       [] k = "min.cleanable.dirty.ratio"      -> FloatV("0.5")
       [] k = "min.compaction.lag.ms"          -> IntV("0")
       [] k = "max.compaction.lag.ms"          -> IntV("604800000")
       [] k = "min.insync.replicas"            -> IntV("2")
       [] k = "unclean.leader.election.enable" -> BoolV("False")
       [] k = "compression.type"               -> StrV("snappy")
       [] k = "segment.ms"                     -> IntV("3600000")
       [] k = "segment.bytes"                  -> IntV("1073741824")
       [] k = "delete.retention.ms"            -> IntV("86400000")
       [] k = "message.timestamp.type"         -> StrV("CreateTime")
       [] k = "max.message.bytes"              -> IntV("1048576")
       [] k = "segment.index.bytes"            -> IntV("10485760")
       [] k = "file.delete.delay.ms"           -> IntV("60000")]

LongRetention ==
  [k \in {"retention.ms", "retention.bytes", "min.insync.replicas",
          "unclean.leader.election.enable", "compression.type",
          "segment.ms", "segment.bytes", "message.timestamp.type",
          "max.message.bytes", "delete.retention.ms",
          "file.delete.delay.ms", "segment.index.bytes",
          "replica.lag.time.max.ms"} |->
     CASE k = "retention.ms"                   -> IntV("1209600000")
       [] k = "retention.bytes"                -> IntV("-1")
       [] k = "min.insync.replicas"            -> IntV("2")
       [] k = "unclean.leader.election.enable" -> BoolV("False")
       [] k = "compression.type"               -> StrV("zstd")
       [] k = "segment.ms"                     -> IntV("86400000")
       [] k = "segment.bytes"                  -> IntV("2147483648")
       [] k = "message.timestamp.type"         -> StrV("CreateTime")
       [] k = "max.message.bytes"              -> IntV("1048576")
       [] k = "delete.retention.ms"            -> IntV("86400000")
       [] k = "file.delete.delay.ms"           -> IntV("300000")
       [] k = "segment.index.bytes"            -> IntV("52428800")
       [] k = "replica.lag.time.max.ms"        -> IntV("60000")]

TOPIC_PROFILES ==
  [p \in {"general_throughput", "low_latency", "compaction_log",
          "long_retention"} |->
     CASE p = "general_throughput" -> GeneralThroughput
       [] p = "low_latency"        -> LowLatency
       [] p = "compaction_log"     -> CompactionLog
       [] p = "long_retention"     -> LongRetention]

\* A returned value, or a raised exception.
Ok(v)     == [ok |-> TRUE, value |-> v]
Raise(e)  == [ok |-> FALSE, err |-> e]

\* The mapping that get_profile returns has the entries that the profile's
\* dict has at the time of the call.
get_profile(profile_name) ==
  IF profile_name \notin DOMAIN TOPIC_PROFILES
    THEN Raise(Error("ValueError",
                     <<"Profile '", profile_name, "' not found. ">>))
    ELSE Ok(heap[profile_name])

merge_configs(profile_config, overrides) ==
  [k \in DOMAIN profile_config \cup DOMAIN overrides |->
     IF k \in DOMAIN overrides THEN overrides[k] ELSE profile_config[k]]

\* config.get(key, default)
DictGet(config, key, default) ==
  IF key \in DOMAIN config THEN config[key] ELSE default

valid_compression == {"none", "gzip", "snappy", "lz4", "zstd"}

\* bool(value): False, 0 and the empty string are falsy.
Truthy(v) ==
  CASE v[1] = "bool" -> v[2] = "True"
    [] v[1] = "int"  -> v[2] # "0"
    [] OTHER         -> v[2] # ""

\* validate_config returns None; the warnings it issued are kept with it.
Warned(warnings) == [ok |-> TRUE, value |-> None, warnings |-> warnings]

UncleanWarning == "unclean.leader.election.enable=true can cause data loss."

\* A validate_config that accepts min.insync.replicas = replication_factor.
validate_config_allowing_equal(config, replication_factor) ==
  LET min_isr     == DictGet(config, "min.insync.replicas", IntV("1"))
      unclean     == DictGet(config, "unclean.leader.election.enable",
                             BoolV("False"))
      compression == DictGet(config, "compression.type", StrV("none"))
  IN  IF min_isr[1] = "str"
        THEN Raise(Error("TypeError",
                         <<"'>=' not supported between 'str' and 'int'">>))
      ELSE IF IntOfLit(min_isr[2]) > replication_factor
        THEN Raise(Error("ValueError",
                         <<"min.insync.replicas (", min_isr[2],
                           ") must be less than replication factor">>))
      ELSE IF ~(compression[1] = "str" /\ compression[2] \in valid_compression)
        THEN Raise(Error("ValueError",
                         <<"Invalid compression.type '", compression[2], "'">>))
      ELSE Warned(IF Truthy(unclean) THEN {UncleanWarning} ELSE {})

\* min_isr >= replication_factor raises TypeError when min_isr is a str.
\* The warning of lines 198-203 is issued before the compression type is
\* checked, and is lost when that check raises.
validate_config(config, replication_factor) ==
  LET min_isr     == DictGet(config, "min.insync.replicas", IntV("1"))
      unclean     == DictGet(config, "unclean.leader.election.enable",
                             BoolV("False"))
      compression == DictGet(config, "compression.type", StrV("none"))
  IN  IF min_isr[1] = "str"
        THEN Raise(Error("TypeError",
                         <<"'>=' not supported between 'str' and 'int'">>))
      ELSE IF IntOfLit(min_isr[2]) >= replication_factor
        THEN Raise(Error("ValueError",
                         <<"min.insync.replicas (", min_isr[2],
                           ") must be less than replication factor">>))
      ELSE IF ~(compression[1] = "str" /\ compression[2] \in valid_compression)
        THEN Raise(Error("ValueError",
                         <<"Invalid compression.type '", compression[2], "'">>))
      ELSE Warned(IF Truthy(unclean) THEN {UncleanWarning} ELSE {})


-----------------------------------------------------------------------------
(* The inputs the operations are called with, and the cluster.             *)

\* Topic names: a plain one, one with the internal prefix, one whose text
\* holds the words the error handler of create_topic looks for.
Names == {"orders", "__offsets", "Orders Already Exists"}

\* sorted(...) on Names: Python's string order.
NameOrder == <<"Orders Already Exists", "__offsets", "orders">>

\* t.startswith('__')
StartsWithInternalPrefix(t) == t = "__offsets"

\* s.lower(), on the message fragments that hold upper-case letters.
Lower(s) ==
  CASE s = "Orders Already Exists" -> "orders already exists"
    [] s = "Topic '"               -> "topic '"
    [] s = "Failed to create topic '" -> "failed to create topic '"
    [] OTHER -> s

\* "already exists" in s, on lower-cased message fragments.
HoldsAlreadyExists(s) == s \in {"orders already exists", "' already exists."}

\* The largest explicit partitions / replication factor argument.
MaxExplicit == 2

NoConfig == << >>

Args(name, partitions, replication_factor, config, profile) ==
  [name |-> name, partitions |-> partitions,
   replication_factor |-> replication_factor, config |-> config,
   profile |-> profile]

ExplicitArgs == {Some(n) : n \in -1 .. MaxExplicit}
ProfileArgs  == DOMAIN TOPIC_PROFILES \cup {"unknown"}
OverrideArgs == { [k \in {"min.insync.replicas"} |-> IntV("1")],
                  [k \in {"min.insync.replicas"} |-> IntV("3")],
                  [k \in {"compression.type"} |-> StrV("brotli")] }

\* The create_topic calls: every profile with the other arguments omitted,
\* on every name; and, on "orders", each other argument varied on its own.
CreateArgs ==
  {Args(n, None, None, NoConfig, p) :
     n \in {"orders"}, p \in ProfileArgs}
  \cup {Args(n, None, None, NoConfig, p) :
     n \in Names, p \in {"general_throughput", "low_latency"}}
  \cup {Args("orders", x, None, NoConfig, "general_throughput") :
     x \in ExplicitArgs}
  \cup {Args("orders", None, x, NoConfig, p) :
     x \in ExplicitArgs, p \in {"general_throughput", "low_latency"}}
  \cup {Args("orders", None, None, c, p) :
     c \in OverrideArgs, p \in {"general_throughput", "low_latency"}}

ChangeArgs == { [k \in {"min.insync.replicas"} |-> IntV("1")],
                [k \in {"min.insync.replicas"} |-> IntV("3")] }

NoTopic == [exists |-> FALSE, partitions |-> 0, replication_factor |-> 0,
            config |-> NoConfig]

Topic(partitions, replication_factor, config) ==
  [exists |-> TRUE, partitions |-> partitions,
   replication_factor |-> replication_factor, config |-> config]

\* Errors raised by the collaborators.
TimedOut    == Error("KafkaException", <<"Local: Timed out">>)
BrokerError == Error("KafkaException", <<"Broker: Policy violation">>)
TopicExists(name) ==
  Error("KafkaException", <<"Topic '", name, "' already exists.">>)
UnknownTopic ==
  Error("KafkaException", <<"Broker: Unknown topic or partition">>)
NoBootstrap ==
  Error("ValueError",
        <<"Either KAFKA_BOOTSTRAP or MSK_CLUSTER_ARN must be provided">>)

KafkaAdminError(msg) == Error("KafkaAdminError", msg)

\* raise KafkaAdminError(f"{prefix}{e}") in a handler of e.
Wrapped(prefix, e) == Chained("KafkaAdminError", prefix \o e.msg, e)

\* tenacity raises RetryError(last_attempt) when the attempts are used up
\* (reraise is left at its default, False); str() names only the class.
RetryError(e) ==
  Chained("RetryError", <<"RetryError[<Future state=finished raised ",
                          e.type, ">]">>, e)

-----------------------------------------------------------------------------
(* The retry decorators.                                                   *)

\* A ceiling of one attempt more.
stop_after_attempt_plus_one(op) == 3 + 1

stop_after_attempt(op) == 3

retry_if_exception_type == {"KafkaException", "KafkaAdminError"}

\* exp_base ** n for exp_base = 2.
RECURSIVE Pow2(_)
Pow2(n) == IF n <= 0 THEN 1 ELSE 2 * Pow2(n - 1)

\* The releases of tenacity differ in the exponent wait_exponential starts
\* from: attempt_number - 1 in the current ones, attempt_number in the
\* older ones.
Releases == {"exponent from 0", "exponent from 1"}

\* wait_exponential(multiplier, min, max) called with the number of the
\* attempt that has just failed: multiplier * 2 ** exponent, kept between
\* min and max.
wait_exponential(release, multiplier, min, max, attempt_number) ==
  LET exp    == Pow2(IF release = "exponent from 0"
                       THEN attempt_number - 1 ELSE attempt_number)
      raw    == multiplier * exp
      capped == IF raw < max THEN raw ELSE max
      floor  == IF 0 > min THEN 0 ELSE min
  IN  IF floor > capped THEN floor ELSE capped

\* The wait= argument of the operation's decorator: min and max.
WaitBounds(op) ==
  IF op \in {"create_topic", "alter_topic_config", "delete_topic"}
    THEN [min |-> 4, max |-> 10]
    ELSE [min |-> 2, max |-> 8]

\* The wait of the operation's decorator after its attempt_number-th
\* attempt has failed.
Wait(release, op, attempt_number) ==
  wait_exponential(release, 1, WaitBounds(op).min, WaitBounds(op).max,
                   attempt_number)

\* list, describe, submit: the remote calls made; failed, succeeded: whether
\* some remote call (building the AdminClient included) failed, succeeded.
\* exhausted: a nested list_topics call gave up; metadata: the outcome of
\* the metadata fetch of health_check; ack: how the wait for the
\* acknowledgment of the last submitted request ended ("acknowledged",
\* "failed": timed out or reported failed by the broker, "conflict": the
\* broker has a topic of the name, "missing": it has none); lookup: the outcome of the
\* configuration lookup of describe_topic; requests: the
\* configuration-change requests the last attempt of alter_topic_config
\* submitted, in order; listing: the outcome of the last attempt of
\* list_topics.
NoStats == [list |-> 0, submit |-> 0, describe |-> 0,
            failed |-> FALSE, succeeded |-> FALSE,
            exhausted |-> FALSE, metadata |-> "none", ack |-> "none",
            lookup |-> "none", requests |-> << >>, listing |-> "none"]

NoError == Error("none", << >>)

NoResult == Raise(NoError)

Running == pc \notin {"idle", "done"}

\* Where an attempt of an operation starts.
FirstPc(op) ==
  CASE op = "create_topic"       -> "validate"
    [] op = "list_topics"        -> "list"
    [] op = "describe_topic"     -> "describe"
    [] op = "alter_topic_config" -> "list"
    [] op = "delete_topic"       -> "list"
    [] op = "health_check"       -> "list"
    [] op = "register_avro_schema" -> "register_validate"
    [] op = "get_schema"           -> "get"
    [] op = "check_compatibility"  -> "check_validate"
    [] op = "get_schema_versions"  -> "versions"
    [] op = "list_schemas"         -> "schemas"

\* The invocation returns r to its caller.
Return(r) ==
  /\ pc' = "done"
  /\ result' = r
  /\ lattempt' = 1
  /\ UNCHANGED attempt

\* An attempt of the invocation raised e: its retry decorator decides.
AttemptRaises(e) ==
  IF e.type \notin retry_if_exception_type
    THEN Return(Raise(e))
  ELSE IF attempt >= stop_after_attempt(call.op)
    THEN Return(Raise(RetryError(e)))
  ELSE /\ pc' = FirstPc(call.op)
       /\ attempt' = attempt + 1
       /\ lattempt' = 1
       /\ UNCHANGED result


-----------------------------------------------------------------------------
(* KafkaAdmin                                                              *)

\* What the cluster keeps of a NewTopic request: the configuration travels
\* as strings.
Stored(partitions, replication_factor, config) ==
  Topic(partitions, replication_factor, [k \in DOMAIN config |-> PyStr(config[k])])

\* What the model remembers of a topic, beside the cluster's record.
\*   known:     the cluster accepted a create request of this client for
\*              the name, and no alteration or deletion since
\*   topic:     what that request asked for (as the cluster keeps it)
\*   profile:   the profile argument of that create_topic call
\*   recreated: a later create_topic with another profile returned success
\*   deleted:   a delete request of this client removed the topic
NotMade == [known |-> FALSE, topic |-> NoTopic,
            profile |-> "general_throughput", recreated |-> FALSE,
            deleted |-> FALSE]

\* A create_topic with another profile than the one the topic was made
\* with has just returned success.
NoteReturn ==
  IF /\ pc' = "done"
     /\ result'.ok
     /\ call.op = "create_topic"
     /\ made[call.name].known
     /\ made[call.name].profile # call.profile
    THEN [made EXCEPT ![call.name].recreated = TRUE]
    ELSE made

\* The schema names of the registry, and a name that is not registered.
\*   versions: the definitions registered under the name, oldest first
\*   metadata: the metadata keys put on the latest version
SchemaNames == {"orders-v1"}

NoSchema == [versions |-> << >>, metadata |-> {}]

\* The installed client library: a current one, whose AdminClient has
\* incremental_alter_configs, or an older one that has alter_configs only
\* (the attribute lookup of line 281 raises AttributeError on it).
CurrentApi == {"incremental_alter_configs", "alter_configs"}

LegacyApi == {"alter_configs"}

ClientApis == {CurrentApi, LegacyApi}

\* A process that has not ended: nothing printed, no exit code yet (the
\* field is read only once the process has ended).
NotEnded == [ended |-> FALSE, printed |-> << >>, exit_code |-> 0]

\* No second client.
NoPeer == [pc |-> "absent"]

\* What an invocation finds when it starts.
Snapshot == [cluster |-> cluster, admin_client |-> admin_client,
             registry |-> registry, glue_client |-> glue_client,
             heap |-> heap]

\* A topic that is on the cluster from the start.
Background == Stored(6, 3, GeneralThroughput)

\* Operations on different names share nothing but the cluster's topic map,
\* which each of them reads for its own name only: the caller works on one
\* name, and the other names are absent, or on the cluster from the start.
\* The installed client library is one or the other for the whole run; the
\* older one is examined with the caller that works on "orders".
Init ==
  /\ focus \in Names
  /\ \E others \in BOOLEAN :
       cluster = [n \in Names |->
                    IF others /\ n # focus THEN Background ELSE NoTopic]
  /\ settings = [default_partitions |-> 6, default_replication_factor |-> 3,
                default_min_insync_replicas |-> 2]
  /\ admin_client = "None"
  /\ pc = "idle"
  /\ call = [op |-> "none", name |-> "orders", partitions |-> None,
             replication_factor |-> None, config |-> NoConfig,
             profile |-> "general_throughput"]
  /\ attempt = 1
  /\ lattempt = 1
  /\ stats = NoStats
  /\ result = NoResult
  /\ constructed = [admin_client |-> 0, glue_client |-> 0]
  /\ registry = [n \in SchemaNames |-> NoSchema]
  /\ glue_client = "None"
  /\ heap = TOPIC_PROFILES
  /\ client_api \in IF focus = "orders" THEN ClientApis ELSE {CurrentApi}
  /\ process = NotEnded
  /\ peer = NoPeer
  /\ before = Snapshot
  /\ made = [n \in Names |-> NotMade]

\* A decorator that keeps its attempt counters from one call to the next.
Invoke_keeping_attempts(op, name, p, rf, config, profile) ==
  /\ ~Running
  /\ name = focus
  /\ call' = [op |-> op, name |-> name, partitions |-> p,
              replication_factor |-> rf, config |-> config,
              profile |-> profile]
  /\ pc' = FirstPc(op)
  /\ stats' = NoStats
  /\ result' = NoResult
  /\ before' = Snapshot
  /\ UNCHANGED <<cluster, settings, admin_client, made, focus, peer, process,
                 client_api, heap, constructed, registry, glue_client,
                 attempt, lattempt>>

\* The caller invokes an operation on the client: the decorator starts a
\* retry state of its own for the call.
Invoke(op, name, partitions, replication_factor, config, profile) ==
  /\ ~Running
  /\ name = focus
  /\ call' = [op |-> op, name |-> name, partitions |-> partitions,
              replication_factor |-> replication_factor, config |-> config,
              profile |-> profile]
  /\ pc' = FirstPc(op)
  /\ attempt' = 1
  /\ lattempt' = 1
  /\ stats' = NoStats
  /\ result' = NoResult
  /\ before' = Snapshot
  /\ UNCHANGED <<cluster, settings, admin_client, made, focus, peer, process, client_api, heap, constructed,
                 registry, glue_client>>

CallCreateTopic(name, partitions, replication_factor, config, profile) ==
  Invoke("create_topic", name, partitions, replication_factor, config, profile)

CallListTopics ==
  Invoke("list_topics", focus, None, None, NoConfig, "general_throughput")

CallDescribeTopic(name) ==
  Invoke("describe_topic", name, None, None, NoConfig, "general_throughput")

CallAlterTopicConfig(name, config) ==
  Invoke("alter_topic_config", name, None, None, config, "general_throughput")

CallDeleteTopic(name) ==
  Invoke("delete_topic", name, None, None, NoConfig, "general_throughput")

CallHealthCheck ==
  Invoke("health_check", focus, None, None, NoConfig, "general_throughput")

\* A create_topic that takes the partitions from the settings, whatever
\* the argument.
Partitions_ignoring_argument ==
  OrDefault(None, settings.default_partitions)

\* create_topic, lines 79-81: the effective partitions and replication factor.
Partitions == OrDefault(call.partitions, settings.default_partitions)

ReplicationFactor ==
  OrDefault(call.replication_factor, settings.default_replication_factor)

\* The local checks without the call of validate_config.
Validation_without_validate_config ==
  IF Partitions < 1
    THEN Raise(KafkaAdminError(<<"Partitions must be >= 1, got ",
                                 ToString(Partitions)>>))
  ELSE IF ReplicationFactor < 1
    THEN Raise(KafkaAdminError(<<"Replication factor must be >= 1, got ",
                                 ToString(ReplicationFactor)>>))
  ELSE LET profile_config == get_profile(call.profile)
       IN  IF ~profile_config.ok THEN profile_config
           ELSE Ok(merge_configs(profile_config.value, call.config))

\* create_topic, lines 84-95: the local checks, in the order of the code.
Validation ==
  IF Partitions < 1
    THEN Raise(KafkaAdminError(<<"Partitions must be >= 1, got ",
                                 ToString(Partitions)>>))
  ELSE IF ReplicationFactor < 1
    THEN Raise(KafkaAdminError(<<"Replication factor must be >= 1, got ",
                                 ToString(ReplicationFactor)>>))
  ELSE LET profile_config == get_profile(call.profile)
       IN  IF ~profile_config.ok THEN profile_config
           ELSE LET final_config ==
                      merge_configs(profile_config.value, call.config)
                    checked == validate_config(final_config, ReplicationFactor)
                IN  IF ~checked.ok THEN checked ELSE Ok(final_config)

\* create_topic up to the existence check: defaults, checks, merge.
CreateTopicValidate ==
  /\ pc = "validate"
  /\ IF Validation.ok
       THEN /\ pc' = "list"
            /\ lattempt' = 1
            /\ UNCHANGED <<attempt, result>>
       ELSE AttemptRaises(Validation.err)
  /\ UNCHANGED <<cluster, settings, admin_client, call, stats, before, made,
                 focus, peer, process, client_api, heap, constructed, registry, glue_client>>

UserTopics_with_internal_topics(topics) ==
  SelectSeq(NameOrder, LAMBDA t : topics[t].exists)

\* list_topics, lines 162-168: the user topics, sorted.
UserTopics(topics) ==
  SelectSeq(NameOrder,
            LAMBDA t : topics[t].exists /\ ~StartsWithInternalPrefix(t))

InList(name, list) == \E i \in DOMAIN list : list[i] = name

\* str(e).lower() holds "already exists": create_topic, line 141.
SaysAlreadyExists(e) ==
  \E i \in DOMAIN e.msg : HoldsAlreadyExists(Lower(e.msg[i]))

\* health_check, lines 382-387: any exception becomes a result.
HealthCheckHandler_reraises(e) == Raise(e)

HealthCheckHandler(e) == Ok([status |-> "unhealthy", error |-> e.msg])

\* Outer handlers that raise an error that no decorator retries.
Handled_not_retried(e) == Raise(Error("RuntimeError", e.msg))

\* An exception e reaches the outer handler of the running operation.
Handled(e) ==
  CASE call.op = "create_topic" ->
         IF SaysAlreadyExists(e) THEN Ok(None)
         ELSE Raise(Wrapped(<<"Failed to create topic '", call.name, "': ">>,
                            e))
    [] call.op = "alter_topic_config" ->
         IF e.type = "KafkaAdminError" THEN Raise(e)
         ELSE Raise(Wrapped(<<"Failed to alter topic config '", call.name,
                              "': ">>, e))
    [] call.op = "delete_topic" ->
         IF e.type = "KafkaAdminError" THEN Raise(e)
         ELSE Raise(Wrapped(<<"Failed to delete topic '", call.name, "': ">>,
                            e))
    [] call.op = "describe_topic" ->
         IF e.type = "KafkaAdminError" THEN Raise(e)
         ELSE Raise(Wrapped(<<"Failed to describe topic '", call.name,
                              "': ">>, e))
    [] call.op = "health_check" -> HealthCheckHandler(e)

\* The body of the running operation ends with r.
BodyEnds(r) == IF r.ok THEN Return(r) ELSE AttemptRaises(r.err)

\* create_topic, lines 108-111: the topic is listed, nothing is submitted.
CreateAfterList(list) ==
  IF InList(call.name, list)
    THEN Return(Ok(None))
    ELSE /\ pc' = "submit"
         /\ lattempt' = 1
         /\ UNCHANGED <<attempt, result>>

\* alter_topic_config, lines 268-269.
AlterAfterList(list) ==
  IF ~InList(call.name, list)
    THEN BodyEnds(Handled(KafkaAdminError(
            <<"Topic '", call.name, "' not found">>)))
    ELSE /\ pc' = "submit"
         /\ lattempt' = 1
         /\ UNCHANGED <<attempt, result>>

\* A delete_topic that treats a missing topic as alter_topic_config does.
DeleteAfterList_not_found(list) ==
  IF ~InList(call.name, list)
    THEN BodyEnds(Handled(KafkaAdminError(
            <<"Topic '", call.name, "' not found">>)))
    ELSE /\ pc' = "submit"
         /\ lattempt' = 1
         /\ UNCHANGED <<attempt, result>>

\* delete_topic, lines 328-330: a topic that is not listed is a success.
DeleteAfterList(list) ==
  IF ~InList(call.name, list)
    THEN Return(Ok(None))
    ELSE /\ pc' = "submit"
         /\ lattempt' = 1
         /\ UNCHANGED <<attempt, result>>

\* health_check, lines 366-369: the topics are listed, the metadata is next.
HealthAfterList(list) ==
  /\ pc' = "metadata"
  /\ lattempt' = 1
  /\ UNCHANGED <<attempt, result>>

\* The list_topics call returned `list`: to the caller, or to the running
\* operation that uses it as its existence check.
AfterList(list) ==
  CASE call.op = "list_topics"        -> Return(Ok(list))
    [] call.op = "create_topic"       -> CreateAfterList(list)
    [] call.op = "alter_topic_config" -> AlterAfterList(list)
    [] call.op = "delete_topic"       -> DeleteAfterList(list)
    [] call.op = "health_check"       -> HealthAfterList(list)

\* An attempt of list_topics raised e (a KafkaAdminError): its decorator
\* retries, or gives up with a RetryError that the calling operation handles.
ListRaises(e) ==
  IF call.op = "list_topics"
    THEN AttemptRaises(e)
  ELSE IF lattempt >= stop_after_attempt("list_topics")
    THEN BodyEnds(Handled(RetryError(e)))
  ELSE /\ lattempt' = lattempt + 1
       /\ UNCHANGED <<pc, attempt, result>>

\* A property that builds an AdminClient at every access.
InitOutcomes_without_cache == {"built", "init_error"}

\* The admin_client property: the AdminClient is built on first use.
\* Building it reads the settings and may fail.
InitOutcomes == IF admin_client = "None" THEN {"built", "init_error"}
                ELSE {"reused"}

\* The connections built so far, after an access of the property.
Built(init) ==
  IF init = "built" THEN [constructed EXCEPT !.admin_client = @ + 1]
  ELSE constructed

\* The nested list_topics call of the running operation gives up with
\* this failure.
GivesUp == /\ call.op # "list_topics"
           /\ lattempt >= stop_after_attempt("list_topics")

\* One attempt of list_topics, lines 160-173.
ListAttempt ==
  /\ pc = "list"
  /\ \E init \in InitOutcomes :
     /\ constructed' = Built(init)
     /\ IF init = "init_error"
         THEN /\ stats' = [stats EXCEPT !.failed = TRUE,
                                         !.listing = "failed",
                                         !.exhausted = @ \/ GivesUp]
              /\ admin_client' = admin_client
              /\ ListRaises(Wrapped(<<"Failed to list topics: ">>,
                                    NoBootstrap))
         ELSE /\ admin_client' = "AdminClient"
              /\ \E e \in {Ok(None), Raise(TimedOut), Raise(BrokerError)} :
                   IF e.ok
                     THEN /\ stats' = [stats EXCEPT !.list = @ + 1,
                                                     !.listing = "ok",
                                                     !.succeeded = TRUE]
                          /\ AfterList(UserTopics(cluster))
                     ELSE /\ stats' = [stats EXCEPT !.list = @ + 1,
                                                     !.failed = TRUE,
                                                     !.listing = "failed",
                                                     !.exhausted =
                                                        @ \/ GivesUp]
                          /\ ListRaises(Wrapped(<<"Failed to list topics: ">>,
                                                e.err))
  /\ made' = NoteReturn
  /\ UNCHANGED <<cluster, settings, call, before, focus, peer, process, client_api, heap, registry,
                 glue_client>>

\* The failures a submitted request can end with.
Failures == {TimedOut, BrokerError}

\* The future of a request raised e0: the operation's inner handler wraps
\* it (lines 135-138, 296-299, 344-347), the outer handler sees the wrapper.
FutureRaises(prefix, e0) ==
  BodyEnds(Handled(Wrapped(<<prefix, call.name, "': ">>, e0)))

\* create_topic, lines 113-138: the create request and its acknowledgment.
\* The cluster refuses a name it already has; a request whose
\* acknowledgment fails may or may not have been applied.
SubmitCreate ==
  /\ pc = "submit"
  /\ call.op = "create_topic"
  /\ LET new_topic == Stored(Partitions, ReplicationFactor, Validation.value)
         created   == [cluster EXCEPT ![call.name] = new_topic]
     IN  \/ /\ ~cluster[call.name].exists
            /\ cluster' = created
            /\ made' = [made EXCEPT ![call.name] =
                          [known |-> TRUE, topic |-> new_topic,
                           profile |-> call.profile, recreated |-> FALSE,
                           deleted |-> FALSE]]
            /\ \/ /\ stats' = [stats EXCEPT !.submit = @ + 1,
                                            !.succeeded = TRUE,
                                            !.ack = "acknowledged"]
                  /\ Return(Ok(None))
               \/ /\ stats' = [stats EXCEPT !.submit = @ + 1, !.failed = TRUE,
                                     !.ack = "failed"]
                  /\ FutureRaises("Failed to create topic '", TimedOut)
         \/ /\ cluster[call.name].exists
            /\ stats' = [stats EXCEPT !.submit = @ + 1, !.ack = "conflict"]
            /\ FutureRaises("Failed to create topic '", TopicExists(call.name))
            /\ made' = NoteReturn
            /\ UNCHANGED cluster
         \/ \E e0 \in Failures :
              /\ stats' = [stats EXCEPT !.submit = @ + 1, !.failed = TRUE,
                                     !.ack = "failed"]
              /\ FutureRaises("Failed to create topic '", e0)
              /\ UNCHANGED <<cluster, made>>
  /\ UNCHANGED <<settings, admin_client, call, before, focus, peer, process, client_api, heap, constructed,
                 registry, glue_client>>

\* alter_topic_config, lines 272-277: every value goes through str().
ConfigEntries(config) == [k \in DOMAIN config |-> PyStr(config[k])]

\* The cluster applies an incremental alteration: the given keys are set,
\* the others are kept.
Altered(topic, entries) ==
  [topic EXCEPT !.config = merge_configs(topic.config, entries)]

\* The cluster applies a full alteration: the topic's configuration becomes
\* the given entries, every other key goes back to its default.
Replaced(topic, entries) == [topic EXCEPT !.config = entries]

AlterRequests_always_incremental == <<"incremental_alter_configs">>

\* alter_topic_config, lines 279-284: the requests one attempt submits, in
\* order.  The fallback runs only when the attribute lookup fails, which is
\* before anything was submitted.
AlterRequests ==
  IF "incremental_alter_configs" \in client_api
    THEN <<"incremental_alter_configs">>
    ELSE <<"alter_configs">>

\* The topic after the cluster has applied the requests.
RECURSIVE Applied(_, _, _)
Applied(topic, requests, entries) ==
  IF requests = << >> THEN topic
  ELSE Applied(IF Head(requests) = "incremental_alter_configs"
                 THEN Altered(topic, entries)
                 ELSE Replaced(topic, entries),
               Tail(requests), entries)

\* alter_topic_config, lines 271-299.
SubmitAlter ==
  /\ pc = "submit"
  /\ call.op = "alter_topic_config"
  /\ LET altered == [cluster EXCEPT ![call.name] =
                        Applied(@, AlterRequests, ConfigEntries(call.config))]
         submitted == [stats EXCEPT !.submit = @ + Len(AlterRequests),
                                    !.requests = AlterRequests]
     IN  \/ /\ cluster[call.name].exists
            /\ cluster' = altered
            /\ made' = [made EXCEPT ![call.name] = NotMade]
            /\ \/ /\ stats' = [submitted EXCEPT !.succeeded = TRUE,
                                                !.ack = "acknowledged"]
                  /\ Return(Ok(None))
               \/ /\ stats' = [submitted EXCEPT !.failed = TRUE,
                                                !.ack = "failed"]
                  /\ FutureRaises("Failed to alter config for topic '", TimedOut)
         \/ \E e0 \in Failures :
              /\ stats' = [submitted EXCEPT !.failed = TRUE, !.ack = "failed"]
              /\ FutureRaises("Failed to alter config for topic '", e0)
              /\ UNCHANGED <<cluster, made>>
  /\ UNCHANGED <<settings, admin_client, call, before, focus, peer, process, client_api, heap,
                 constructed, registry, glue_client>>

\* delete_topic, lines 332-347.  The cluster refuses to delete a topic it
\* does not have (another client has deleted it since the existence check).
SubmitDelete ==
  /\ pc = "submit"
  /\ call.op = "delete_topic"
  /\ \/ /\ cluster[call.name].exists
        /\ cluster' = [cluster EXCEPT ![call.name] = NoTopic]
        /\ made' = [made EXCEPT ![call.name] =
                      [NotMade EXCEPT !.deleted = TRUE]]
        /\ \/ /\ stats' = [stats EXCEPT !.submit = @ + 1, !.succeeded = TRUE,
                                        !.ack = "acknowledged"]
              /\ Return(Ok(None))
           \/ /\ stats' = [stats EXCEPT !.submit = @ + 1, !.failed = TRUE,
                                     !.ack = "failed"]
              /\ FutureRaises("Failed to delete topic '", TimedOut)
     \/ /\ ~cluster[call.name].exists
        /\ stats' = [stats EXCEPT !.submit = @ + 1, !.ack = "missing"]
        /\ FutureRaises("Failed to delete topic '", UnknownTopic)
        /\ UNCHANGED <<cluster, made>>
     \/ \E e0 \in Failures :
          /\ stats' = [stats EXCEPT !.submit = @ + 1, !.failed = TRUE,
                                     !.ack = "failed"]
          /\ FutureRaises("Failed to delete topic '", e0)
          /\ UNCHANGED <<cluster, made>>
  /\ UNCHANGED <<settings, admin_client, call, before, focus, peer, process, client_api, heap, constructed,
                 registry, glue_client>>


\* What describe_configs returns for a topic: the entries set on the topic,
\* and the broker's defaults for the keys that are not.
BrokerDefaults ==
  [k \in {"min.insync.replicas", "compression.type", "cleanup.policy"} |->
     CASE k = "min.insync.replicas" -> StrV("1")
       [] k = "compression.type"    -> StrV("producer")
       [] k = "cleanup.policy"      -> StrV("delete")]

ConfigResult(topic) ==
  [k \in DOMAIN topic.config \cup DOMAIN BrokerDefaults |->
     IF k \in DOMAIN topic.config
       THEN [value |-> topic.config[k], is_default |-> FALSE]
       ELSE [value |-> BrokerDefaults[k], is_default |-> TRUE]]

\* The filter of describe_topic with its test inverted.
NonDefault_inverted(config_result) ==
  LET keys == {k \in DOMAIN config_result : config_result[k].is_default}
  IN  [k \in keys |-> config_result[k].value]

\* describe_topic, lines 209-213: only the entries that are not at default.
NonDefault(config_result) ==
  LET keys == {k \in DOMAIN config_result : ~config_result[k].is_default}
  IN  [k \in keys |-> config_result[k].value]

\* describe_topic, lines 218-235.  Of a partition only its id is kept:
\* leader, replicas and isr are copied from the metadata as they are.
Description(name, topic, topic_config) ==
  [name |-> name,
   partitions |-> topic.partitions,
   replication_factor |->
     IF topic.partitions > 0 THEN topic.replication_factor ELSE 0,
   config |-> topic_config,
   partition_details |-> [i \in 1 .. topic.partitions |-> [id |-> i - 1]]]

\* One attempt of describe_topic, lines 192-245.  A failed configuration
\* lookup is logged and leaves the configuration empty.
DescribeAttempt ==
  /\ pc = "describe"
  /\ \E init \in InitOutcomes :
     /\ constructed' = Built(init)
     /\ IF init = "init_error"
         THEN /\ stats' = [stats EXCEPT !.failed = TRUE]
              /\ admin_client' = admin_client
              /\ BodyEnds(Handled(NoBootstrap))
         ELSE /\ admin_client' = "AdminClient"
              /\ LET topic == cluster[call.name]
                 IN  \/ \E e0 \in Failures :
                          /\ stats' = [stats EXCEPT
                                          !.describe = @ + 1, !.failed = TRUE]
                          /\ BodyEnds(Handled(e0))
                     \/ /\ ~topic.exists
                        /\ stats' = [stats EXCEPT
                                        !.describe = @ + 1, !.succeeded = TRUE]
                        /\ BodyEnds(Handled(KafkaAdminError(
                              <<"Topic '", call.name, "' not found">>)))
                     \/ /\ topic.exists
                        /\ stats' = [stats EXCEPT
                                        !.describe = @ + 1, !.succeeded = TRUE,
                                        !.lookup = "ok"]
                        /\ Return(Ok(Description(call.name, topic,
                                       NonDefault(ConfigResult(topic)))))
                     \/ /\ topic.exists
                        /\ stats' = [stats EXCEPT
                                        !.describe = @ + 1, !.failed = TRUE,
                                        !.lookup = "failed"]
                        /\ Return(Ok(Description(call.name, topic, NoConfig)))
  /\ UNCHANGED <<cluster, settings, call, before, made, focus, peer, process, client_api, heap, registry,
                 glue_client>>

\* The brokers of the cluster, as the metadata names them.
BrokerIds == {1, 2, 3}

\* health_check, lines 374-380 (the response time is left out).
Healthy(topics) ==
  [status |-> "healthy", broker_count |-> Cardinality(BrokerIds),
   topic_count |-> Len(topics), brokers |-> BrokerIds]

\* health_check, lines 368-387: the metadata fetch and the result.  The
\* topics are those the list_topics call of line 366 returned: nothing
\* changes the cluster between the two calls.
HealthMetadata ==
  /\ pc = "metadata"
  /\ call.op = "health_check"
  /\ \E init \in InitOutcomes :
     /\ constructed' = Built(init)
     /\ IF init = "init_error"
         THEN /\ stats' = [stats EXCEPT !.failed = TRUE,
                                         !.metadata = "failed"]
              /\ admin_client' = admin_client
              /\ BodyEnds(Handled(NoBootstrap))
         ELSE /\ admin_client' = "AdminClient"
              /\ \/ /\ stats' = [stats EXCEPT !.succeeded = TRUE,
                                               !.metadata = "ok"]
                    /\ Return(Ok(Healthy(UserTopics(cluster))))
                 \/ \E e0 \in Failures :
                      /\ stats' = [stats EXCEPT !.failed = TRUE,
                                                 !.metadata = "failed"]
                      /\ BodyEnds(Handled(e0))
  /\ UNCHANGED <<cluster, settings, call, before, made, focus, peer, process, client_api, heap, registry,
                 glue_client>>

-----------------------------------------------------------------------------

Next ==
  \/ \E a \in CreateArgs :
       CallCreateTopic(a.name, a.partitions, a.replication_factor, a.config,
                       a.profile)
  \/ CallListTopics
  \/ \E name \in Names : CallDescribeTopic(name)
  \/ \E name \in Names, config \in ChangeArgs :
       CallAlterTopicConfig(name, config)
  \/ \E name \in Names : CallDeleteTopic(name)
  \/ CallHealthCheck
  \/ CreateTopicValidate
  \/ ListAttempt
  \/ SubmitCreate
  \/ SubmitAlter
  \/ SubmitDelete
  \/ DescribeAttempt
  \/ HealthMetadata

Spec == Init /\ [][Next]_vars


-----------------------------------------------------------------------------
(* SchemaRegistry: the schema texts, the registry and its errors.          *)

\* The schema texts the callers pass.  Each stands for one JSON text; what
\* json.loads makes of it is given by json_loads.
\*   Order:          a record with fields id (no default), note (default)
\*   OrderLessNote:  the same record without note
\*   OrderLessId:    the same record without id
\*   OrderUntyped:   the fields of Order, but not a schema the registry
\*                   accepts (the record has no type)
\*   Array:          a JSON text that is not an object
\*   Truncated:      not a JSON text
Order == "{type: record, fields: [id, note = '']}"
OrderLessNote == "{type: record, fields: [id]}"
OrderLessId == "{type: record, fields: [note = '']}"
OrderUntyped == "{fields: [id, note = '']}"
Array == "[]"
Truncated == "{type: record, fields: ["

SchemaTexts ==
  {Order, OrderLessNote, OrderLessId, OrderUntyped, Array, Truncated}

Field(has_default) == [has_default |-> has_default]

JsonObject(fields) == [kind |-> "object", fields |-> fields]

JSONDecodeError == Error("JSONDecodeError", <<"Expecting value">>)

\* json.loads of a schema text.
json_loads(text) ==
  CASE text = Order ->
         Ok(JsonObject([f \in {"id", "note"} |-> Field(f = "note")]))
    [] text = OrderLessNote ->
         Ok(JsonObject([f \in {"id"} |-> Field(FALSE)]))
    [] text = OrderLessId ->
         Ok(JsonObject([f \in {"note"} |-> Field(TRUE)]))
    [] text = OrderUntyped ->
         Ok(JsonObject([f \in {"id", "note"} |-> Field(f = "note")]))
    [] text = Array -> Ok([kind |-> "array"])
    [] text = Truncated -> Raise(JSONDecodeError)

\* The registry's verdict of check_schema_version_validity.
RegistryValid(text) == text \in {Order, OrderLessNote, OrderLessId}

\* register_avro_schema, line 92.
valid_compatibility == {"BACKWARD", "FORWARD", "FULL", "NONE"}

CompatibilityArgs == {"BACKWARD", "SIDEWAYS"}

\* The most versions a schema of the registry gets.
MaxVersions == 3

Schema(versions) == [versions |-> versions, metadata |-> {}]

Registered(name) == registry[name].versions # << >>

Latest(name) == registry[name].versions[Len(registry[name].versions)]

Arn(name) == <<"arn:aws:glue:schema/", name>>

\* botocore's ClientError, with the code and the message of its response.
ClientError(code, message) ==
  [type |-> "ClientError", msg |-> <<message>>, code |-> code,
   root |-> [type |-> "ClientError", msg |-> <<message>>]]

EntityNotFound == ClientError("EntityNotFoundException", "Schema is not found")
Throttled == ClientError("ThrottlingException", "Rate exceeded")
AlreadyExists == ClientError("AlreadyExistsException", "Schema already exists")
InvalidInput == ClientError("InvalidInputException", "Schema is incompatible")
Unreachable ==
  Error("BotoCoreError", <<"Could not connect to the endpoint URL">>)

\* The failures any call of the registry can end with.
RegistryFailures == {Throttled, Unreachable}

SchemaRegistryError(msg) == Error("SchemaRegistryError", msg)

\* raise SchemaRegistryError(f"{prefix}{e}") in a handler of e.
RegistryWrapped(prefix, e) ==
  Chained("SchemaRegistryError", prefix \o e.msg, e)

\* raise SchemaRegistryError(f"{prefix}{error_msg}") in a handler of a
\* ClientError.
OfClientError(prefix, e) == Chained("SchemaRegistryError", prefix \o e.msg, e)

SchemaNotFound(name) == <<"Schema '", name, "' not found">>

\* check_compatibility, lines 318-346: the structural check.  A text that
\* does not parse, or is not an object, makes the check raise, and the
\* handler of line 340 answers True.
StructurallyCompatible(existing_schema, candidate_schema) ==
  LET existing_dict  == json_loads(existing_schema)
      candidate_dict == json_loads(candidate_schema)
  IN  IF \/ ~existing_dict.ok
         \/ ~candidate_dict.ok
         \/ existing_dict.value.kind # "object"
         \/ candidate_dict.value.kind # "object"
        THEN TRUE
        ELSE \A field_name \in DOMAIN existing_dict.value.fields :
               \/ field_name \in DOMAIN candidate_dict.value.fields
               \/ existing_dict.value.fields[field_name].has_default

-----------------------------------------------------------------------------
(* SchemaRegistry: the operations.                                         *)

\* The retry decorators of schema_registry.py.
registry_retry_types == {"ClientError", "BotoCoreError", "SchemaRegistryError"}

\* calls: the calls of the registry made; writes: those that changed it;
\* failed: whether one of them failed for a reason of the transport.
NoRegistryStats == [calls |-> 0, writes |-> 0, failed |-> FALSE]

\* An attempt of the invocation raised e: its retry decorator decides.
RegistryAttemptRaises(e) ==
  IF e.type \notin registry_retry_types
    THEN Return(Raise(e))
  ELSE IF attempt >= stop_after_attempt(call.op)
    THEN Return(Raise(RetryError(e)))
  ELSE /\ pc' = FirstPc(call.op)
       /\ attempt' = attempt + 1
       /\ lattempt' = 1
       /\ UNCHANGED result

\* The running attempt goes on at `next`.
GoOn(next) ==
  /\ pc' = next
  /\ lattempt' = 1
  /\ UNCHANGED <<attempt, result>>

\* The caller invokes an operation on the registry client.
InvokeRegistry(op, schema_name, schema_str, compatibility) ==
  /\ ~Running
  /\ call' = [op |-> op, name |-> schema_name, schema |-> schema_str,
              compatibility |-> compatibility]
  /\ pc' = FirstPc(op)
  /\ attempt' = 1
  /\ lattempt' = 1
  /\ stats' = NoRegistryStats
  /\ result' = NoResult
  /\ before' = Snapshot
  /\ UNCHANGED <<cluster, settings, admin_client, made, focus, peer, process, client_api, heap, constructed,
                 registry, glue_client>>

CallRegisterAvroSchema(schema_str, schema_name, compatibility) ==
  InvokeRegistry("register_avro_schema", schema_name, schema_str,
                 compatibility)

CallGetSchema(schema_name) ==
  InvokeRegistry("get_schema", schema_name, Order, "BACKWARD")

CallCheckCompatibility(schema_name, candidate_schema) ==
  InvokeRegistry("check_compatibility", schema_name, candidate_schema,
                 "BACKWARD")

CallGetSchemaVersions(schema_name) ==
  InvokeRegistry("get_schema_versions", schema_name, Order, "BACKWARD")

\* The glue_client property, lines 36-41: the client is built on first use.
UseGlueClient ==
  /\ glue_client' = "GlueClient"
  /\ constructed' = IF glue_client = "None"
                      THEN [constructed EXCEPT !.glue_client = @ + 1]
                      ELSE constructed

\* What the variables of the topic client do in a step of the registry
\* client: nothing.
TopicsUnchanged ==
  UNCHANGED <<cluster, settings, admin_client, made, focus, peer, process, client_api, heap>>

\* register_avro_schema, lines 138-157: the handlers of its try block (the
\* AlreadyExistsException of lines 142-151 is in RegisterSubmit).
RegisterHandled(e) ==
  IF e.type = "ClientError"
    THEN IF e.code = "InvalidInputException"
           THEN OfClientError(<<"Invalid schema input: ">>, e)
           ELSE OfClientError(<<"Failed to register schema: ">>, e)
    ELSE RegistryWrapped(<<"Failed to register schema '", call.name,
                           "': ">>, e)

\* check_compatibility, lines 353-358.
CheckHandled(e) ==
  IF e.type = "ClientError"
    THEN OfClientError(<<"Compatibility check failed: ">>, e)
    ELSE RegistryWrapped(<<"Failed to check compatibility for '", call.name,
                           "': ">>, e)

\* get_schema, lines 201-210.
GetHandled(e) ==
  IF e.type = "ClientError"
    THEN IF e.code = "EntityNotFoundException"
           THEN Chained("SchemaRegistryError", SchemaNotFound(call.name), e)
           ELSE OfClientError(<<"Failed to get schema: ">>, e)
    ELSE RegistryWrapped(<<"Failed to get schema '", call.name, "': ">>, e)

\* register_avro_schema, lines 84-97: the local checks.
RegisterValidate ==
  /\ pc = "register_validate"
  /\ LET schema_dict == json_loads(call.schema)
     IN  IF ~schema_dict.ok
           THEN RegistryAttemptRaises(RegisterHandled(SchemaRegistryError(
                  <<"Invalid JSON in schema: ">> \o schema_dict.err.msg)))
         ELSE IF call.compatibility \notin valid_compatibility
           THEN RegistryAttemptRaises(RegisterHandled(SchemaRegistryError(
                  <<"Invalid compatibility '", call.compatibility, "'">>)))
         ELSE GoOn("get")
  /\ UNCHANGED <<stats, call, before, constructed, registry, glue_client>>
  /\ TopicsUnchanged

\* self.get_schema(...) inside an operation raised x.  Lines 112 and 348
\* catch SchemaRegistryError only; anything else goes to the handlers of
\* the operation's try block.
NestedGetRaised(x) ==
  IF call.op = "register_avro_schema"
    THEN IF x.type = "SchemaRegistryError" THEN GoOn("register")
         ELSE RegistryAttemptRaises(RegisterHandled(x))
    ELSE IF x.type = "SchemaRegistryError" THEN Return(Ok(TRUE))
         ELSE RegistryAttemptRaises(CheckHandled(x))

\* An attempt of get_schema raised e: its decorator retries, or gives up
\* with a RetryError.
GetRaises(e) ==
  IF call.op = "get_schema"
    THEN RegistryAttemptRaises(e)
  ELSE IF e.type \notin registry_retry_types
    THEN NestedGetRaised(e)
  ELSE IF lattempt >= stop_after_attempt("get_schema")
    THEN NestedGetRaised(RetryError(e))
  ELSE /\ lattempt' = lattempt + 1
       /\ UNCHANGED <<pc, attempt, result>>

\* get_schema returned the definition: to the caller, or to the operation
\* that called it (lines 101-102, 301).
GetReturns(schema_definition) ==
  CASE call.op = "get_schema" -> Return(Ok(schema_definition))
    [] call.op = "register_avro_schema" ->
         IF schema_definition = call.schema THEN GoOn("arn")
         ELSE GoOn("register")
    [] call.op = "check_compatibility" -> GoOn("put")

\* One attempt of get_schema, lines 179-210.
GetSchemaAttempt ==
  /\ pc = "get"
  /\ UseGlueClient
  /\ \/ /\ Registered(call.name)
        /\ stats' = [stats EXCEPT !.calls = @ + 1]
        /\ GetReturns(Latest(call.name))
     \/ /\ ~Registered(call.name)
        /\ stats' = [stats EXCEPT !.calls = @ + 1]
        /\ GetRaises(GetHandled(EntityNotFound))
     \/ \E e0 \in RegistryFailures :
          /\ stats' = [stats EXCEPT !.calls = @ + 1, !.failed = TRUE]
          /\ GetRaises(GetHandled(e0))
  /\ UNCHANGED <<call, before, registry>>
  /\ TopicsUnchanged

\* register_avro_schema, lines 105-111 and 145-151: the identifier of the
\* schema is fetched.  A failure of the fetch of line 145, in a handler,
\* leaves the operation as it is.
RegisterArn ==
  /\ pc \in {"arn", "arn_in_handler"}
  /\ UseGlueClient
  /\ \/ /\ stats' = [stats EXCEPT !.calls = @ + 1]
        /\ Return(Ok(Arn(call.name)))
     \/ \E e0 \in RegistryFailures :
          /\ stats' = [stats EXCEPT !.calls = @ + 1, !.failed = TRUE]
          /\ IF pc = "arn" THEN RegistryAttemptRaises(RegisterHandled(e0))
             ELSE RegistryAttemptRaises(e0)
  /\ UNCHANGED <<call, before, registry>>
  /\ TopicsUnchanged

\* register_avro_schema, lines 117-136 and 142-143: the registration.  The
\* registry makes the first version of a new name; for a name it has, it
\* adds a version, refuses the name, or rejects the definition.
RegisterSubmit ==
  /\ pc = "register"
  /\ UseGlueClient
  /\ \/ /\ \/ ~Registered(call.name)
           \/ /\ Len(registry[call.name].versions) < MaxVersions
              /\ RegistryValid(call.schema)
        /\ registry' = [registry EXCEPT ![call.name] =
                          Schema(Append(@.versions, call.schema))]
        /\ stats' = [stats EXCEPT !.calls = @ + 1, !.writes = @ + 1]
        /\ Return(Ok(Arn(call.name)))
     \/ /\ Registered(call.name)
        /\ stats' = [stats EXCEPT !.calls = @ + 1]
        /\ GoOn("arn_in_handler")
        /\ UNCHANGED registry
     \/ /\ Registered(call.name)
        /\ stats' = [stats EXCEPT !.calls = @ + 1]
        /\ RegistryAttemptRaises(RegisterHandled(InvalidInput))
        /\ UNCHANGED registry
     \/ \E e0 \in RegistryFailures :
          /\ stats' = [stats EXCEPT !.calls = @ + 1, !.failed = TRUE]
          /\ RegistryAttemptRaises(RegisterHandled(e0))
          /\ UNCHANGED registry
  /\ UNCHANGED <<call, before>>
  /\ TopicsUnchanged

\* check_compatibility, lines 284-288: the candidate is parsed.
CheckValidate ==
  /\ pc = "check_validate"
  /\ LET candidate == json_loads(call.schema)
     IN  IF ~candidate.ok
           THEN RegistryAttemptRaises(CheckHandled(SchemaRegistryError(
                  <<"Invalid JSON in candidate schema: ">>
                    \o candidate.err.msg)))
           ELSE GoOn("validity")
  /\ UNCHANGED <<stats, call, before, constructed, registry, glue_client>>
  /\ TopicsUnchanged

\* check_compatibility, lines 290-297: the registry's verdict.
CheckValidity ==
  /\ pc = "validity"
  /\ UseGlueClient
  /\ \/ /\ stats' = [stats EXCEPT !.calls = @ + 1]
        /\ IF ~RegistryValid(call.schema) THEN Return(Ok(FALSE))
           ELSE GoOn("get")
     \/ \E e0 \in RegistryFailures :
          /\ stats' = [stats EXCEPT !.calls = @ + 1, !.failed = TRUE]
          /\ RegistryAttemptRaises(CheckHandled(e0))
  /\ UNCHANGED <<call, before, registry>>
  /\ TopicsUnchanged

\* check_compatibility, lines 304-346: the metadata is put on the latest
\* version, then the structural check answers.
CheckPut ==
  /\ pc = "put"
  /\ UseGlueClient
  /\ \/ /\ registry' = [registry EXCEPT ![call.name].metadata =
                          @ \cup {"compatibility_check"}]
        /\ stats' = [stats EXCEPT !.calls = @ + 1, !.writes = @ + 1]
        /\ Return(Ok(StructurallyCompatible(Latest(call.name), call.schema)))
     \/ \E e0 \in RegistryFailures :
          /\ stats' = [stats EXCEPT !.calls = @ + 1, !.failed = TRUE]
          /\ RegistryAttemptRaises(CheckHandled(e0))
          /\ UNCHANGED registry
  /\ UNCHANGED <<call, before>>
  /\ TopicsUnchanged

\* get_schema_versions, lines 385-394: the versions, latest first.
VersionSummaries(versions) ==
  [i \in 1 .. Len(versions) |->
     [version_number |-> Len(versions) + 1 - i]]

\* get_schema_versions, lines 374-405: it has no retry decorator.
GetSchemaVersions ==
  /\ pc = "versions"
  /\ UseGlueClient
  /\ \/ /\ Registered(call.name)
        /\ stats' = [stats EXCEPT !.calls = @ + 1]
        /\ Return(Ok(VersionSummaries(registry[call.name].versions)))
     \/ /\ ~Registered(call.name)
        /\ stats' = [stats EXCEPT !.calls = @ + 1]
        /\ Return(Raise(Chained("SchemaRegistryError",
                                SchemaNotFound(call.name), EntityNotFound)))
     \/ \E e0 \in RegistryFailures :
          /\ stats' = [stats EXCEPT !.calls = @ + 1, !.failed = TRUE]
          /\ Return(Raise(
               IF e0.type = "ClientError"
                 THEN OfClientError(<<"Failed to get schema versions: ">>, e0)
                 ELSE RegistryWrapped(<<"Failed to get versions for '",
                                        call.name, "': ">>, e0)))
  /\ UNCHANGED <<call, before, registry>>
  /\ TopicsUnchanged

\* sorted(schemas, key=name) on SchemaNames.
SchemaOrder == <<"orders-v1">>

\* list_schemas, lines 235-249: one entry for each schema of the registry,
\* sorted by name.
SchemaInfos ==
  LET listed == SelectSeq(SchemaOrder, LAMBDA n : Registered(n))
  IN  [i \in DOMAIN listed |->
         [name |-> listed[i], arn |-> Arn(listed[i]),
          version_number |-> Len(registry[listed[i]].versions)]]

CallListSchemas ==
  InvokeRegistry("list_schemas", "orders-v1", Order, "BACKWARD")

\* One attempt of list_schemas, lines 228-261.  A registry that is not
\* found (it then holds no schema) is answered with the empty list.
ListSchemas ==
  /\ pc = "schemas"
  /\ UseGlueClient
  /\ \/ /\ stats' = [stats EXCEPT !.calls = @ + 1]
        /\ Return(Ok(SchemaInfos))
     \/ /\ \A n \in SchemaNames : ~Registered(n)
        /\ stats' = [stats EXCEPT !.calls = @ + 1]
        /\ Return(Ok(<< >>))
     \/ \E e0 \in RegistryFailures :
          /\ stats' = [stats EXCEPT !.calls = @ + 1, !.failed = TRUE]
          /\ RegistryAttemptRaises(
               IF e0.type = "ClientError"
                 THEN OfClientError(<<"Failed to list schemas: ">>, e0)
                 ELSE RegistryWrapped(<<"Failed to list schemas: ">>, e0))
  /\ UNCHANGED <<call, before, registry>>
  /\ TopicsUnchanged

\* The registry at the start: the name is not registered, or has one or
\* two versions.
InitRegistry ==
  /\ focus = "orders"
  /\ cluster = [n \in Names |-> NoTopic]
  /\ settings = [default_partitions |-> 6, default_replication_factor |-> 3,
                default_min_insync_replicas |-> 2]
  /\ admin_client = "None"
  /\ pc = "idle"
  /\ call = [op |-> "none", name |-> "orders-v1", schema |-> Order,
             compatibility |-> "BACKWARD"]
  /\ attempt = 1
  /\ lattempt = 1
  /\ stats = NoRegistryStats
  /\ result = NoResult
  /\ constructed = [admin_client |-> 0, glue_client |-> 0]
  /\ registry \in [SchemaNames ->
                     {NoSchema, Schema(<<Order>>),
                      Schema(<<Order, OrderLessNote>>)}]
  /\ glue_client = "None"
  /\ heap = TOPIC_PROFILES
  /\ client_api = CurrentApi
  /\ process = NotEnded
  /\ peer = NoPeer
  /\ before = Snapshot
  /\ made = [n \in Names |-> NotMade]

NextRegistry ==
  \/ \E schema_name \in SchemaNames, schema_str \in SchemaTexts,
        compatibility \in CompatibilityArgs :
       CallRegisterAvroSchema(schema_str, schema_name, compatibility)
  \/ \E schema_name \in SchemaNames : CallGetSchema(schema_name)
  \/ \E schema_name \in SchemaNames, candidate_schema \in SchemaTexts :
       CallCheckCompatibility(schema_name, candidate_schema)
  \/ \E schema_name \in SchemaNames : CallGetSchemaVersions(schema_name)
  \/ CallListSchemas
  \/ ListSchemas
  \/ RegisterValidate
  \/ GetSchemaAttempt
  \/ RegisterArn
  \/ RegisterSubmit
  \/ CheckValidate
  \/ CheckValidity
  \/ CheckPut
  \/ GetSchemaVersions

SpecRegistry == InitRegistry /\ [][NextRegistry]_vars

\* A caller that holds one client of each kind and uses them one call at
\* a time.
InitClients ==
  /\ focus = "orders"
  /\ cluster = [n \in Names |-> NoTopic]
  /\ settings = [default_partitions |-> 6, default_replication_factor |-> 3,
                default_min_insync_replicas |-> 2]
  /\ admin_client = "None"
  /\ pc = "idle"
  /\ call = [op |-> "none", name |-> "orders", partitions |-> None,
             replication_factor |-> None, config |-> NoConfig,
             profile |-> "general_throughput"]
  /\ attempt = 1
  /\ lattempt = 1
  /\ stats = NoStats
  /\ result = NoResult
  /\ constructed = [admin_client |-> 0, glue_client |-> 0]
  /\ registry \in [SchemaNames -> {NoSchema, Schema(<<Order>>)}]
  /\ glue_client = "None"
  /\ heap = TOPIC_PROFILES
  /\ client_api = CurrentApi
  /\ process = NotEnded
  /\ peer = NoPeer
  /\ before = Snapshot
  /\ made = [n \in Names |-> NotMade]

\* The calls of that caller: every operation of both clients, with one
\* choice of arguments each (two for the schema text).
NextClients ==
  \/ CallCreateTopic("orders", None, None, NoConfig, "general_throughput")
  \/ CallListTopics
  \/ CallDescribeTopic("orders")
  \/ \E config \in ChangeArgs : CallAlterTopicConfig("orders", config)
  \/ CallDeleteTopic("orders")
  \/ CallHealthCheck
  \/ CreateTopicValidate
  \/ ListAttempt
  \/ SubmitCreate
  \/ SubmitAlter
  \/ SubmitDelete
  \/ DescribeAttempt
  \/ HealthMetadata
  \/ \E schema_str \in {Order, OrderLessNote} :
       CallRegisterAvroSchema(schema_str, "orders-v1", "BACKWARD")
  \/ CallGetSchema("orders-v1")
  \/ CallCheckCompatibility("orders-v1", Order)
  \/ CallGetSchemaVersions("orders-v1")
  \/ CallListSchemas
  \/ ListSchemas
  \/ RegisterValidate
  \/ GetSchemaAttempt
  \/ RegisterArn
  \/ RegisterSubmit
  \/ CheckValidate
  \/ CheckValidity
  \/ CheckPut
  \/ GetSchemaVersions

SpecClients == InitClients /\ [][NextClients]_vars

-----------------------------------------------------------------------------
(* cli.py: one command per process.  A command builds its client, calls    *)
(* one operation, prints a result and ends.                                *)

\* print_success, lines 69-72: {"status": "success", **data}, so a key of
\* data replaces the one written before it.  A command that returns ends
\* the process with exit code 0.
print_success(data) ==
  [ended |-> TRUE, printed |-> data @@ [status |-> "success"],
   exit_code |-> 0]

\* handle_error, lines 56-66.
handle_error(error, operation) ==
  [ended |-> TRUE,
   printed |-> [status |-> "error", operation |-> operation,
                error |-> error.msg, error_type |-> error.type],
   exit_code |-> 1]

\* The name a command gives its operation in what it prints.
CommandName(op) ==
  CASE op = "register_avro_schema" -> "register_schema"
    [] op = "get_schema_versions"  -> "list_schema_versions"
    [] OTHER -> op

\* The data a command hands to print_success: describe_topic and
\* health_check unpack the returned dict after the "operation" key (lines
\* 149-152 and 378-381); the other commands name their keys, none of which
\* is "status" (those keys are left out here).
CommandData ==
  IF call.op \in {"describe_topic", "health_check"}
    THEN result.value @@ [operation |-> CommandName(call.op)]
    ELSE [operation |-> CommandName(call.op)]

\* The operation has returned or raised: the command prints and ends.
\* get_schema parses the definition before it prints (line 291).
CommandEnds ==
  /\ pc = "done"
  /\ process = NotEnded
  /\ process' =
       IF ~result.ok
         THEN handle_error(result.err, CommandName(call.op))
       ELSE IF call.op = "get_schema" /\ ~json_loads(result.value).ok
         THEN handle_error(json_loads(result.value).err, "get_schema")
       ELSE print_success(CommandData)
  /\ pc' = "exited"
  /\ UNCHANGED <<cluster, settings, admin_client, call, attempt, lattempt,
                 stats, result, before, made, focus, peer, constructed, registry,
                 glue_client, heap, client_api>>

\* The delete command without --confirm, lines 195-199: the user declines
\* at the prompt, the command prints a line of text and returns.
DeleteCancelled ==
  /\ pc = "idle"
  /\ process = NotEnded
  /\ process' = [ended |-> TRUE, printed |-> [text |-> "Operation cancelled."],
                 exit_code |-> 0]
  /\ pc' = "exited"
  /\ UNCHANGED <<cluster, settings, admin_client, call, attempt, lattempt,
                 stats, result, before, made, focus, peer, constructed, registry,
                 glue_client, heap, client_api>>

\* A process runs one command: on a cluster where the topic is there or
\* not, and a registry where the schema is registered or not.
InitCli ==
  /\ focus = "orders"
  /\ cluster \in {[n \in Names |-> NoTopic],
                  [n \in Names |-> IF n = focus THEN Background ELSE NoTopic]}
  /\ settings = [default_partitions |-> 6, default_replication_factor |-> 3,
                default_min_insync_replicas |-> 2]
  /\ admin_client = "None"
  /\ pc = "idle"
  /\ call = [op |-> "none", name |-> "orders", partitions |-> None,
             replication_factor |-> None, config |-> NoConfig,
             profile |-> "general_throughput"]
  /\ attempt = 1
  /\ lattempt = 1
  /\ stats = NoStats
  /\ result = NoResult
  /\ constructed = [admin_client |-> 0, glue_client |-> 0]
  /\ registry \in [SchemaNames -> {NoSchema, Schema(<<Order>>)}]
  /\ glue_client = "None"
  /\ heap = TOPIC_PROFILES
  /\ client_api = CurrentApi
  /\ process = NotEnded
  /\ peer = NoPeer
  /\ before = Snapshot
  /\ made = [n \in Names |-> NotMade]

\* The steps of the one operation the command calls, and its end.
NextCli ==
  \/ pc # "done" /\ NextClients
  \/ CommandEnds
  \/ DeleteCancelled

SpecCli == InitCli /\ [][NextCli]_vars

-----------------------------------------------------------------------------
(* Two clients, each a KafkaAdmin of its own, work on the same cluster.    *)
(* The variables pc .. constructed are those of the client that takes the  *)
(* next step; those of the other client are kept in peer.                  *)

\* What a client has of its own.
Local ==
  [pc |-> pc, call |-> call, attempt |-> attempt, lattempt |-> lattempt,
   stats |-> stats, result |-> result, before |-> before,
   admin_client |-> admin_client, constructed |-> constructed]

\* The other client takes the next steps.
Switch ==
  /\ peer' = Local
  /\ pc' = peer.pc
  /\ call' = peer.call
  /\ attempt' = peer.attempt
  /\ lattempt' = peer.lattempt
  /\ stats' = peer.stats
  /\ result' = peer.result
  /\ before' = peer.before
  /\ admin_client' = peer.admin_client
  /\ constructed' = peer.constructed
  /\ UNCHANGED <<cluster, settings, made, focus, process, client_api, heap,
                 registry, glue_client>>

\* Both clients are new; the topic is on the cluster or not.
InitTwoClients ==
  /\ focus \in Names
  /\ cluster \in {[n \in Names |-> NoTopic],
                  [n \in Names |-> IF n = focus THEN Background ELSE NoTopic]}
  /\ settings = [default_partitions |-> 6, default_replication_factor |-> 3,
                default_min_insync_replicas |-> 2]
  /\ admin_client = "None"
  /\ pc = "idle"
  /\ call = [op |-> "none", name |-> "orders", partitions |-> None,
             replication_factor |-> None, config |-> NoConfig,
             profile |-> "general_throughput"]
  /\ attempt = 1
  /\ lattempt = 1
  /\ stats = NoStats
  /\ result = NoResult
  /\ constructed = [admin_client |-> 0, glue_client |-> 0]
  /\ registry = [n \in SchemaNames |-> NoSchema]
  /\ glue_client = "None"
  /\ heap = TOPIC_PROFILES
  /\ client_api = CurrentApi
  /\ process = NotEnded
  /\ before = Snapshot
  /\ peer = Local
  /\ made = [n \in Names |-> NotMade]

\* Each client makes one call, create_topic or delete_topic of the same
\* name, and the steps of the two calls interleave.  The remote calls fail
\* only for what the other client did: there are no timeouts, no broker
\* errors of another kind, and the AdminClient can be built.
NextTwoClients ==
  \/ /\ call.op = "none"
     /\ CallCreateTopic(focus, None, None, NoConfig, "general_throughput")
  \/ call.op = "none" /\ CallDeleteTopic(focus)
  \/ CreateTopicValidate
  \/ ListAttempt /\ ~stats'.failed
  \/ SubmitCreate /\ ~stats'.failed
  \/ SubmitDelete /\ ~stats'.failed
  \/ Switch

SpecTwoClients == InitTwoClients /\ [][NextTwoClients]_vars

-----------------------------------------------------------------------------
(* Two threads use one client instance.  Each of them reaches, in its      *)
(* first operation, the admin_client property (kafka_admin.py 35-50) or    *)
(* the glue_client property (schema_registry.py 36-41); the statements of  *)
(* the property are the steps.  pc, call (the property the thread reads    *)
(* and the object it has built) and result are those of the thread that    *)
(* takes the next step; those of the other thread are kept in peer.        *)

\* The k-th client object built for the instance.
Handle(field, k) ==
  CASE field = "admin_client" /\ k = 1 -> "AdminClient"
    [] field = "admin_client" /\ k = 2 -> "AdminClient (another)"
    [] field = "glue_client"  /\ k = 1 -> "GlueClient"
    [] field = "glue_client"  /\ k = 2 -> "GlueClient (another)"

\* self._admin_client or self._glue_client.
Attribute == IF call.op = "admin_client" THEN admin_client ELSE glue_client

\* The thread's operation reads the property.
PropertyAccessed ==
  /\ pc = "idle"
  /\ pc' = "is None"
  /\ UNCHANGED <<cluster, settings, admin_client, call, attempt, lattempt,
                 stats, result, before, made, focus, constructed, registry,
                 glue_client, heap, client_api, process, peer>>

\* if self._admin_client is None:
PropertyTest ==
  /\ pc = "is None"
  /\ pc' = IF Attribute = "None" THEN "build" ELSE "return"
  /\ UNCHANGED <<cluster, settings, admin_client, call, attempt, lattempt,
                 stats, result, before, made, focus, constructed, registry,
                 glue_client, heap, client_api, process, peer>>

\* The body of the if, its right-hand side: the client object is built.
\* Reading the Kafka configuration from the settings may raise.
PropertyBuild ==
  /\ pc = "build"
  /\ \/ /\ call.op = "admin_client"
        /\ constructed' = [constructed EXCEPT !.admin_client = @ + 1]
        /\ call' = [call EXCEPT !.object =
                      Handle("admin_client", constructed'.admin_client)]
        /\ pc' = "assign"
        /\ UNCHANGED result
     \/ /\ call.op = "glue_client"
        /\ constructed' = [constructed EXCEPT !.glue_client = @ + 1]
        /\ call' = [call EXCEPT !.object =
                      Handle("glue_client", constructed'.glue_client)]
        /\ pc' = "assign"
        /\ UNCHANGED result
     \/ /\ call.op = "admin_client"
        /\ result' = Raise(NoBootstrap)
        /\ pc' = "done"
        /\ UNCHANGED <<call, constructed>>
  /\ UNCHANGED <<cluster, settings, admin_client, attempt, lattempt, stats,
                 before, made, focus, registry, glue_client, heap, client_api,
                 process, peer>>

\* The body of the if, the assignment: self._admin_client = ...
PropertyAssign ==
  /\ pc = "assign"
  /\ IF call.op = "admin_client"
       THEN admin_client' = call.object /\ UNCHANGED glue_client
       ELSE glue_client' = call.object /\ UNCHANGED admin_client
  /\ pc' = "return"
  /\ UNCHANGED <<cluster, settings, call, attempt, lattempt, stats, result,
                 before, made, focus, constructed, registry, heap, client_api,
                 process, peer>>

\* return self._admin_client: the handle the thread goes on with.
PropertyReturn ==
  /\ pc = "return"
  /\ result' = Ok(Attribute)
  /\ pc' = "done"
  /\ UNCHANGED <<cluster, settings, admin_client, call, attempt, lattempt,
                 stats, before, made, focus, constructed, registry,
                 glue_client, heap, client_api, process, peer>>

\* The other thread takes the next steps.
SwitchThread ==
  /\ peer' = [pc |-> pc, call |-> call, result |-> result]
  /\ pc' = peer.pc
  /\ call' = peer.call
  /\ result' = peer.result
  /\ UNCHANGED <<cluster, settings, admin_client, attempt, lattempt,
                 stats, before, made, focus, constructed, registry,
                 glue_client, heap, client_api, process>>

\* A new instance of KafkaAdmin or of SchemaRegistry, and two threads
\* that have not used it yet.
InitThreads ==
  /\ focus = "orders"
  /\ cluster = [n \in Names |-> NoTopic]
  /\ settings = [default_partitions |-> 6, default_replication_factor |-> 3,
                default_min_insync_replicas |-> 2]
  /\ admin_client = "None"
  /\ pc = "idle"
  /\ call \in {[op |-> "admin_client", object |-> "None"],
               [op |-> "glue_client", object |-> "None"]}
  /\ attempt = 1
  /\ lattempt = 1
  /\ stats = NoStats
  /\ result = NoResult
  /\ constructed = [admin_client |-> 0, glue_client |-> 0]
  /\ registry = [n \in SchemaNames |-> NoSchema]
  /\ glue_client = "None"
  /\ heap = TOPIC_PROFILES
  /\ client_api = CurrentApi
  /\ process = NotEnded
  /\ before = Snapshot
  /\ peer = [pc |-> "idle", call |-> call, result |-> NoResult]
  /\ made = [n \in Names |-> NotMade]

NextThreads ==
  \/ PropertyAccessed
  \/ PropertyTest
  \/ PropertyBuild
  \/ PropertyAssign
  \/ PropertyReturn
  \/ SwitchThread

SpecThreads == InitThreads /\ [][NextThreads]_vars

-----------------------------------------------------------------------------
(* topic_profiles.py as a caller uses it: get_profile and merge_configs    *)
(* return dict objects, which the caller may change.                       *)

\* A new dict object with the given entries, bound to `id` in the heap h.
New(h, id, entries) == (id :> entries) @@ h

\* The heap h without the objects that nothing refers to any more: the
\* dicts of TOPIC_PROFILES and the objects of `refs` stay.
Live(h, refs) ==
  [id \in (DOMAIN TOPIC_PROFILES \cup refs) \cap DOMAIN h |-> h[id]]

\* A get_profile that returns the dict of TOPIC_PROFILES itself.
ProfileCopy_without_copy(h, profile_name) ==
  [heap |-> Live(h, {}), ref |-> profile_name]

\* get_profile, line 147: TOPIC_PROFILES[profile_name].copy().  The caller
\* keeps the returned mapping in place of those it held.
ProfileCopy(h, profile_name) ==
  [heap |-> New(Live(h, {}), "profile_config", h[profile_name]),
   ref |-> "profile_config"]

\* A merge_configs that updates profile_config itself.
MergedCopy_in_place(h, profile_config, overrides) ==
  [heap |-> [h EXCEPT ![profile_config] =
                        merge_configs(h[profile_config], h[overrides])],
   ref |-> profile_config]

\* merge_configs, lines 175-177: a copy of profile_config, updated with the
\* overrides.
MergedCopy(h, profile_config, overrides) ==
  [heap |-> New(h, "merged",
                merge_configs(h[profile_config], h[overrides])),
   ref |-> "merged"]

\* The returned mapping that the caller holds: the one that its last call
\* of topic_profiles.py returned.
Held ==
  IF call.op \in {"get_profile", "merge_configs"} /\ result.ok
    THEN {result.value}
    ELSE {}

\* What topic_profiles.py and the caller's own statements leave as it is.
ClientsUnchanged ==
  UNCHANGED <<cluster, settings, admin_client, made, focus, peer, process, client_api, constructed,
              registry, glue_client>>

\* A call of topic_profiles.py is an invocation of its own.
FreshInvocation ==
  /\ attempt' = 1
  /\ lattempt' = 1
  /\ stats' = NoStats
  /\ pc' = "done"

\* The caller calls get_profile(profile_name).
CallGetProfile(profile_name) ==
  /\ ~Running
  /\ call' = [op |-> "get_profile", name |-> profile_name]
  /\ before' = Snapshot
  /\ IF get_profile(profile_name).ok
       THEN /\ heap' = ProfileCopy(heap, profile_name).heap
            /\ result' = Ok(ProfileCopy(heap, profile_name).ref)
       ELSE /\ result' = get_profile(profile_name)
            /\ UNCHANGED heap
  /\ FreshInvocation
  /\ ClientsUnchanged

\* The overrides that merge_configs is called with: those of OverrideArgs,
\* and no override.
MergeArgs == OverrideArgs \cup {NoConfig}

\* The caller builds a dict of overrides and calls merge_configs with the
\* mapping it got from get_profile.
CallMergeConfigs(overrides) ==
  /\ ~Running
  /\ call.op = "get_profile"
  /\ result.ok
  /\ LET built  == New(heap, "overrides", overrides)
         merged == MergedCopy(built, result.value, "overrides")
     IN  /\ before' = [Snapshot EXCEPT !.heap = built]
         /\ heap' = merged.heap
         /\ result' = Ok(merged.ref)
  /\ call' = [op |-> "merge_configs", profile_config |-> result.value,
              overrides |-> "overrides"]
  /\ FreshInvocation
  /\ ClientsUnchanged

\* The caller changes a mapping it holds: mapping[key] = value.
SetItem(ref, key, value) ==
  /\ ~Running
  /\ ref \in Held
  /\ heap' = [heap EXCEPT ![ref] = (key :> value) @@ @]
  /\ pc' = "idle"
  /\ UNCHANGED <<call, result, before, attempt, lattempt, stats>>
  /\ ClientsUnchanged

\* The caller changes a mapping it holds: mapping.clear().
Clear(ref) ==
  /\ ~Running
  /\ ref \in Held
  /\ heap' = [heap EXCEPT ![ref] = NoConfig]
  /\ pc' = "idle"
  /\ UNCHANGED <<call, result, before, attempt, lattempt, stats>>
  /\ ClientsUnchanged

\* The caller lets go of the mappings it holds.
Drop ==
  /\ ~Running
  /\ Held # {}
  /\ heap' = Live(heap, {})
  /\ call' = [op |-> "del"]
  /\ result' = NoResult
  /\ before' = [Snapshot EXCEPT !.heap = Live(heap, {})]
  /\ pc' = "idle"
  /\ UNCHANGED <<attempt, lattempt, stats>>
  /\ ClientsUnchanged

\* A caller of topic_profiles.py and of create_topic, on an empty cluster.
InitProfiles ==
  /\ Init
  /\ focus = "orders"
  /\ \A n \in Names : ~cluster[n].exists

NextProfiles ==
  \/ \E profile_name \in ProfileArgs : CallGetProfile(profile_name)
  \/ \E overrides \in MergeArgs : CallMergeConfigs(overrides)
  \/ \E ref \in Held : SetItem(ref, "min.insync.replicas", IntV("3"))
  \/ \E ref \in Held : Clear(ref)
  \/ Drop
  \/ \E profile \in {"general_throughput", "unknown"} :
       /\ Held = {}
       /\ CallCreateTopic("orders", None, None, NoConfig, profile)
  \/ CreateTopicValidate
  \/ ListAttempt
  \/ SubmitCreate

SpecProfiles == InitProfiles /\ [][NextProfiles]_vars

\* The largest min.insync.replicas and replication factor that
\* validate_config is called with.
MaxReplicas == 4

\* The configurations that validate_config is called with: each of the
\* three entries it reads is absent or has one of a few values.
ValidateConfigs ==
  LET Entries(key, values) == {NoConfig} \cup {(key :> v) : v \in values}
  IN  {a @@ b @@ c :
         a \in Entries("min.insync.replicas",
                       {IntV(ToString(m)) : m \in 0 .. MaxReplicas}),
         b \in Entries("compression.type",
                       {StrV("snappy"), StrV("zstd"), StrV("brotli"),
                        StrV("")}),
         c \in Entries("unclean.leader.election.enable",
                       {BoolV("True"), BoolV("False")})}

\* A caller that is about to call validate_config.
InitValidate ==
  /\ focus = "orders"
  /\ cluster = [n \in Names |-> NoTopic]
  /\ settings = [default_partitions |-> 6, default_replication_factor |-> 3,
                default_min_insync_replicas |-> 2]
  /\ admin_client = "None"
  /\ pc = "idle"
  /\ \E config \in ValidateConfigs, replication_factor \in 0 .. MaxReplicas :
       call = [op |-> "validate_config", config |-> config,
               replication_factor |-> replication_factor]
  /\ attempt = 1
  /\ lattempt = 1
  /\ stats = NoStats
  /\ result = NoResult
  /\ constructed = [admin_client |-> 0, glue_client |-> 0]
  /\ registry = [n \in SchemaNames |-> NoSchema]
  /\ glue_client = "None"
  /\ heap = TOPIC_PROFILES
  /\ client_api = CurrentApi
  /\ process = NotEnded
  /\ peer = NoPeer
  /\ before = Snapshot
  /\ made = [n \in Names |-> NotMade]

\* The caller calls validate_config(config, replication_factor).
CallValidateConfig ==
  /\ pc = "idle"
  /\ call.op = "validate_config"
  /\ result' = validate_config(call.config, call.replication_factor)
  /\ pc' = "done"
  /\ UNCHANGED <<call, before, attempt, lattempt, stats, heap>>
  /\ ClientsUnchanged

SpecValidate == InitValidate /\ [][CallValidateConfig]_vars

-----------------------------------------------------------------------------
(* config.py: Settings reads the topic defaults from the environment, and  *)
(* a KafkaAdmin built on the accepted Settings creates a topic.            *)

\* The environment: DEFAULT_REPLICATION_FACTOR and
\* DEFAULT_MIN_INSYNC_REPLICAS are not set, or hold an integer.
Environments ==
  [DEFAULT_REPLICATION_FACTOR :
     {None} \cup {Some(n) : n \in 0 .. MaxReplicas},
   DEFAULT_MIN_INSYNC_REPLICAS :
     {None} \cup {Some(n) : n \in 0 .. MaxReplicas}]

\* Settings.validate_min_insync_replicas, lines 83-92.
validate_min_insync_replicas(v, values) ==
  LET replication_factor == values.default_replication_factor
  IN  IF v >= replication_factor
        THEN Raise(Error("ValueError",
                         <<"min.insync.replicas (", ToString(v),
                           ") must be less than replication.factor (",
                           ToString(replication_factor), ")">>))
        ELSE Ok(v)

\* Settings(), lines 59-61 and 83: a field that the environment does not
\* set takes its default, and the validator of a field runs on a value
\* that was supplied, not on the default.
Settings(env) ==
  LET default_replication_factor ==
        IF env.DEFAULT_REPLICATION_FACTOR = None THEN 3
        ELSE env.DEFAULT_REPLICATION_FACTOR[1]
      default_min_insync_replicas ==
        IF env.DEFAULT_MIN_INSYNC_REPLICAS = None THEN Ok(2)
        ELSE validate_min_insync_replicas(
               env.DEFAULT_MIN_INSYNC_REPLICAS[1],
               [default_replication_factor |-> default_replication_factor])
  IN  IF default_min_insync_replicas.ok
        THEN Ok([default_partitions |-> 6,
                 default_replication_factor |-> default_replication_factor,
                 default_min_insync_replicas |->
                   default_min_insync_replicas.value])
        ELSE default_min_insync_replicas

\* A KafkaAdmin on a Settings object that the validators accepted, on an
\* empty cluster.
InitSettings ==
  /\ focus = "orders"
  /\ cluster = [n \in Names |-> NoTopic]
  /\ \E env \in Environments :
       /\ Settings(env).ok
       /\ settings = Settings(env).value
  /\ admin_client = "None"
  /\ pc = "idle"
  /\ call = [op |-> "none", name |-> "orders", partitions |-> None,
             replication_factor |-> None, config |-> NoConfig,
             profile |-> "general_throughput"]
  /\ attempt = 1
  /\ lattempt = 1
  /\ stats = NoStats
  /\ result = NoResult
  /\ constructed = [admin_client |-> 0, glue_client |-> 0]
  /\ registry = [n \in SchemaNames |-> NoSchema]
  /\ glue_client = "None"
  /\ heap = TOPIC_PROFILES
  /\ client_api = CurrentApi
  /\ process = NotEnded
  /\ peer = NoPeer
  /\ before = Snapshot
  /\ made = [n \in Names |-> NotMade]

\* create_topic with the replication factor left out, the default profile
\* and no overrides.
NextSettings ==
  \/ CallCreateTopic("orders", None, None, NoConfig, "general_throughput")
  \/ CreateTopicValidate
  \/ ListAttempt
  \/ SubmitCreate

SpecSettings == InitSettings /\ [][NextSettings]_vars

-----------------------------------------------------------------------------
(* Properties.                                                             *)

\* The invocation of op has returned to its caller.
Done(op) == pc = "done" /\ call.op = op

\* No remote call of the running invocation failed: no timeout, no broker
\* error, no failure to build the AdminClient.
FaultFree == ~stats.failed

\* C1: create_topic is idempotent: whenever a topic of the given name is on
\* the cluster and the arguments pass the local checks, create_topic
\* returns success and submits no create request.
C1_CreateExistingSubmitsNothing ==
  (/\ Done("create_topic")
   /\ before.cluster[call.name].exists
   /\ Validation.ok
   /\ FaultFree)
    => (result.ok /\ stats.submit = 0)

\* C2: once the cluster has accepted the request of create_topic(n, P1),
\* the topic keeps the partitions, replication factor and configuration of
\* that request for as long as nothing alters or deletes it; a later
\* create_topic(n, P2) with P2 # P1 that returns success has left the topic
\* of n as it found it, and a describe_topic(n) whose calls all succeed
\* reports the settings of the accepted request.
C2_SecondCreateKeepsSettings ==
  /\ \A n \in Names : made[n].known => cluster[n] = made[n].topic
  /\ (/\ Done("create_topic")
      /\ result.ok
      /\ made[call.name].known
      /\ made[call.name].profile # call.profile)
       => /\ cluster[call.name] = before.cluster[call.name]
          /\ cluster[call.name] = made[call.name].topic
  /\ (/\ Done("describe_topic")
      /\ result.ok
      /\ FaultFree
      /\ made[call.name].known)
       => /\ result.value.partitions = made[call.name].topic.partitions
          /\ result.value.replication_factor =
               made[call.name].topic.replication_factor
          /\ result.value.config = made[call.name].topic.config

\* C2 happens: describe_topic reports on a topic that create_topic made
\* with one profile, after a create_topic with another profile returned
\* success.
C2_Witness ==
  /\ Done("describe_topic")
  /\ result.ok
  /\ FaultFree
  /\ made[call.name].known
  /\ made[call.name].recreated

\* C3: delete_topic is idempotent: a delete_topic whose remote calls all
\* succeed returns success, whether the topic exists or not (so two in a
\* row both succeed); when no topic of the name exists it submits no delete
\* request and leaves the cluster as it was.
C3_DeleteIdempotent ==
  (Done("delete_topic") /\ FaultFree)
    => /\ result.ok
       /\ ~before.cluster[call.name].exists
            => (stats.submit = 0 /\ cluster = before.cluster)

\* C3 happens: a delete_topic returns success for a topic that an earlier
\* delete_topic of this client removed.
C3_Witness ==
  /\ Done("delete_topic")
  /\ FaultFree
  /\ result.ok
  /\ made[call.name].deleted
  /\ ~before.cluster[call.name].exists

\* The min.insync.replicas in force for a topic of the cluster.
MinInsyncReplicas(topic) ==
  IntOfLit(DictGet(topic.config, "min.insync.replicas",
                   BrokerDefaults["min.insync.replicas"])[2])

\* C4: every create submission and every configuration-change submission
\* that reaches the cluster results in a topic whose min.insync.replicas is
\* strictly less than its replication factor.
C4_MinInsyncBelowReplicationFactor ==
  \A n \in Names :
    cluster[n].exists =>
      MinInsyncReplicas(cluster[n]) < cluster[n].replication_factor

\* The profile of the running call is unknown, or validate_config rejects
\* the merged configuration.
Rejected ==
  LET profile_config == get_profile(call.profile)
  IN  \/ ~profile_config.ok
      \/ ~validate_config(merge_configs(profile_config.value, call.config),
                          ReplicationFactor).ok

\* C5: create_topic validates before it touches the cluster: when the
\* profile is unknown or validate_config rejects the merged configuration,
\* the call fails and has made no remote call: no AdminClient is built, no
\* topics are listed, no create request is submitted, and the cluster is as
\* it was, whether or not the topic exists.
C5_ValidateBeforeRemoteCalls ==
  (call.op = "create_topic" /\ Rejected)
    => /\ stats = NoStats
       /\ admin_client = before.admin_client
       /\ cluster = before.cluster
       /\ pc \in {"validate", "done"}
       /\ pc = "done" => ~result.ok

\* C5 happens: a create_topic with a rejected configuration has failed for
\* a topic that is on the cluster.
C5_Witness ==
  /\ Done("create_topic")
  /\ Rejected
  /\ get_profile(call.profile).ok
  /\ before.cluster[call.name].exists
  /\ ~result.ok

\* C6: when no remote metadata call succeeds, one list_topics invocation
\* makes exactly 3 attempts and returns an error: it never makes a 4th
\* attempt and never returns before the 3rd.
C6_ListTopicsThreeAttempts ==
  /\ call.op = "list_topics" => (attempt <= 3 /\ stats.list <= 3)
  /\ (Done("list_topics") /\ ~stats.succeeded)
       => (~result.ok /\ attempt = 3)

\* C6 happens: list_topics has returned after three failed metadata calls.
C6_Witness ==
  /\ Done("list_topics")
  /\ ~stats.succeeded
  /\ stats.list = 3
  /\ ~result.ok

\* C7: when the retries of an operation are exhausted by failures of its
\* remote calls, the error the caller receives is the error observed on the
\* last attempt, unchanged: of the same type and with the same message.
C7_ExhaustedErrorUnchanged ==
  (/\ pc = "done"
   /\ ~result.ok
   /\ attempt = stop_after_attempt(call.op)
   /\ result.err.root.type = "KafkaException")
    => /\ result.err.type = result.err.root.type
       /\ result.err.msg = result.err.root.msg

\* C8: within one invocation of create_topic, alter_topic_config or
\* delete_topic no remote call, the topic listing of the existence check
\* included, is attempted more than 3 times.
C8_RemoteCallsWithinCeiling ==
  call.op \in {"create_topic", "alter_topic_config", "delete_topic"}
    => (stats.list <= 3 /\ stats.submit <= 3)

\* C9: an error that is not transient ends the invocation after exactly
\* one attempt: a describe_topic or alter_topic_config that fails though
\* none of its remote calls failed (the topic is not found) has made one
\* attempt.
C9_NotFoundEndsAfterOneAttempt ==
  (/\ call.op \in {"describe_topic", "alter_topic_config"}
   /\ pc = "done"
   /\ ~result.ok
   /\ FaultFree)
    => attempt = 1

\* The running create_topic was given a partitions value or a replication
\* factor below 1.
ExplicitBelowOne ==
  \/ call.partitions # None /\ call.partitions[1] < 1
  \/ call.replication_factor # None /\ call.replication_factor[1] < 1

\* C10: create_topic called with an explicit partitions value or an
\* explicit replication factor below 1, zero included, fails and submits no
\* create request.
C10_BelowOneFails ==
  (call.op = "create_topic" /\ ExplicitBelowOne)
    => /\ stats.submit = 0
       /\ pc = "done" => ~result.ok

\* C11: a validation failure in create_topic (an invalid partitions or
\* replication-factor argument, an unknown profile, a configuration that
\* validate_config rejects) ends the invocation after exactly one attempt.
C11_ValidationFailureOneAttempt ==
  (Done("create_topic") /\ ~Validation.ok) => attempt = 1

\* The error of a lookup of a name that is not a topic.
TopicNotFound(name) == KafkaAdminError(<<"Topic '", name, "' not found">>)

\* C18: describe_topic and alter_topic_config on a name that is not a topic
\* of the cluster fail with the not-found error; alter_topic_config then
\* submits no configuration change and the cluster is as it was.
C18_MissingTopicNotFound ==
  (/\ call.op \in {"describe_topic", "alter_topic_config"}
   /\ pc = "done"
   /\ ~before.cluster[call.name].exists
   /\ FaultFree)
    => /\ ~result.ok
       /\ result.err = TopicNotFound(call.name)
       /\ stats.submit = 0
       /\ cluster = before.cluster

\* The messages health_check can capture: of a list_topics call that gave
\* up, and of a failed metadata fetch.
CapturedMessages ==
  {RetryError(Wrapped(<<"Failed to list topics: ">>, e0)).msg :
     e0 \in Failures \cup {NoBootstrap}}
  \cup {e0.msg : e0 \in Failures \cup {NoBootstrap}}

\* C19: health_check never raises: whatever fails (building the
\* AdminClient, the topic listing with its retries, the metadata fetch) it
\* returns a result; the result is unhealthy, with the message of the
\* captured error, exactly when the list_topics call gave up or the
\* metadata fetch failed, and healthy with the broker count and the topic
\* count otherwise.
C19_HealthCheckNeverRaises ==
  Done("health_check") =>
    /\ result.ok
    /\ result.value.status \in {"healthy", "unhealthy"}
    /\ result.value.status = "unhealthy"
         <=> (stats.exhausted \/ stats.metadata = "failed")
    /\ result.value.status = "unhealthy"
         => result.value.error \in CapturedMessages
    /\ result.value.status = "healthy"
         => /\ result.value.broker_count = Cardinality(BrokerIds)
            /\ result.value.topic_count = Len(UserTopics(cluster))

\* C19 happens: health_check returns unhealthy after its list_topics call
\* failed three times.
C19_Witness ==
  /\ Done("health_check")
  /\ result.ok
  /\ stats.exhausted
  /\ stats.list = 3
  /\ result.value.status = "unhealthy"

\* The running registry call was given arguments that its local checks
\* refuse: a schema text that is not JSON, or (register_avro_schema) a
\* compatibility mode that is none of the four.
RefusedLocally ==
  \/ /\ call.op \in {"register_avro_schema", "check_compatibility"}
     /\ ~json_loads(call.schema).ok
  \/ /\ call.op = "register_avro_schema"
     /\ call.compatibility \notin valid_compatibility

\* C12: register_avro_schema with a text that is not JSON or a
\* compatibility mode outside the four, and check_compatibility with a
\* candidate that is not JSON, fail as validation errors: exactly one
\* attempt is made, no call reaches the registry, the registry is as it was.
C12_SchemaValidationOneAttempt ==
  RefusedLocally
    => /\ stats.calls = 0
       /\ registry = before.registry
       /\ pc = "done" => (~result.ok /\ attempt = 1)

\* C13: register_avro_schema(d, n, c) with valid arguments, on a registry
\* that has no schema n and again on the registry that holds d as the only
\* version of n, succeeds with the identifier of n, and d is then the only
\* version of n.
C13_RegisterTwiceOneVersion ==
  (/\ Done("register_avro_schema")
   /\ ~RefusedLocally
   /\ FaultFree
   /\ before.registry[call.name].versions \in {<< >>, <<call.schema>>})
    => /\ result.ok
       /\ result.value = Arn(call.name)
       /\ registry[call.name].versions = <<call.schema>>

\* The definitions registered under a name.
Definitions(schema) == {schema.versions[i] : i \in DOMAIN schema.versions}

\* C14: when n is registered and none of its versions has the definition
\* d (a schema that the registry finds valid),
\* register_avro_schema(d, n, c) either adds d as the latest version of
\* n or fails: it never returns success while no version of n has the
\* definition d.
C14_SuccessMeansRegistered ==
  (/\ Done("register_avro_schema")
   /\ before.registry[call.name].versions # << >>
   /\ call.schema \notin Definitions(before.registry[call.name])
   /\ RegistryValid(call.schema))
    => IF result.ok
         THEN /\ Len(registry[call.name].versions)
                   = Len(before.registry[call.name].versions) + 1
              /\ Latest(call.name) = call.schema
         ELSE registry = before.registry

\* C15: check_compatibility(n, candidate) returns true whenever no schema n
\* is registered, for every candidate that parses as JSON (here: for those
\* that the registry finds valid as well).
C15_NoSchemaIsCompatible ==
  (/\ Done("check_compatibility")
   /\ before.registry[call.name].versions = << >>
   /\ json_loads(call.schema).ok
   /\ RegistryValid(call.schema)
   /\ FaultFree)
    => (result.ok /\ result.value = TRUE)

\* The fields of a parsed JSON text; a text that is not an object has none.
FieldsOf(parsed) ==
  IF parsed.kind = "object" THEN parsed.fields ELSE << >>

\* Some field of the existing definition without a default is absent from
\* the candidate.
RequiredFieldRemoved(existing_schema, candidate_schema) ==
  LET existing_fields  == FieldsOf(json_loads(existing_schema).value)
      candidate_fields == FieldsOf(json_loads(candidate_schema).value)
  IN  \E f \in DOMAIN existing_fields :
        f \notin DOMAIN candidate_fields /\ ~existing_fields[f].has_default

\* C16: for a registered schema n and a candidate that parses as JSON,
\* check_compatibility(n, candidate) returns false when a field without
\* default of the latest definition is absent from the candidate, and true
\* otherwise, whatever the registry's verdict on the candidate.
C16_StructuralRuleDecides ==
  (/\ Done("check_compatibility")
   /\ before.registry[call.name].versions # << >>
   /\ json_loads(call.schema).ok
   /\ FaultFree)
    => /\ result.ok
       /\ result.value = ~RequiredFieldRemoved(Latest(call.name), call.schema)

\* C17: get_schema and get_schema_versions on a name that is not
\* registered fail with the schema-not-found SchemaRegistryError, and the
\* registry is as it was.
C17_MissingSchemaNotFound ==
  (/\ call.op \in {"get_schema", "get_schema_versions"}
   /\ pc = "done"
   /\ before.registry[call.name].versions = << >>
   /\ FaultFree)
    => /\ ~result.ok
       /\ result.err.type = "SchemaRegistryError"
       /\ result.err.msg = SchemaNotFound(call.name)
       /\ registry = before.registry

\* The operations of the topic client.
TopicOps == {"create_topic", "list_topics", "describe_topic",
             "alter_topic_config", "delete_topic", "health_check"}

\* C20: a client instance used sequentially builds at most one connection:
\* none before the first operation, one at the first operation that needs
\* it (every remote call goes through it), and the same one from then on.
C20_OneConnection ==
  /\ constructed.admin_client <= 1
  /\ constructed.glue_client <= 1
  /\ admin_client = "None" <=> constructed.admin_client = 0
  /\ glue_client = "None" <=> constructed.glue_client = 0
  /\ call.op = "none"
       => (constructed.admin_client = 0 /\ constructed.glue_client = 0)
  /\ (/\ call.op \in TopicOps
      /\ stats.list + stats.submit + stats.describe > 0)
       => constructed.admin_client = 1
  /\ (call.op \notin TopicOps \cup {"none"} /\ stats.calls > 0)
       => constructed.glue_client = 1

\* C20 happens: both clients have built their connection, and an operation
\* that found the AdminClient built has used it.
C20_Witness ==
  /\ Done("list_topics")
  /\ result.ok
  /\ before.admin_client = "AdminClient"
  /\ before.glue_client = "GlueClient"
  /\ constructed.admin_client = 1
  /\ constructed.glue_client = 1

\* The operations that the retry policy is said to wrap.
RetriedOps == {"create_topic", "list_topics", "describe_topic",
               "alter_topic_config", "delete_topic", "register_avro_schema",
               "get_schema", "list_schemas", "check_compatibility",
               "get_schema_versions"}

\* The transient failures of a remote call, as the root of the error that
\* the caller receives.
TransientRoots == {e.root : e \in Failures \cup RegistryFailures}

\* C21: every remote operation of both clients is wrapped by the retry
\* policy: a transient failure of the first attempt is followed by a second
\* attempt, so that no invocation returns the transient error of its first
\* attempt to the caller.
C21_TransientFirstAttemptRetried ==
  (/\ pc = "done"
   /\ call.op \in RetriedOps
   /\ ~result.ok
   /\ result.err.root \in TransientRoots)
    => attempt > 1

\* The step is the wait for the acknowledgment of a submitted request, and
\* the wait times out or ends with a failure reported by the broker.
AckFails == pc = "submit" /\ stats'.ack = "failed"

\* C22: a create_topic, alter_topic_config or delete_topic attempt whose
\* acknowledgment times out or is reported failed by the broker is a
\* transient failure: before the 3rd attempt the invocation goes on with
\* the next attempt, and at the 3rd attempt it returns an error.
C22_AckFailureIsTransient ==
  [][AckFails =>
       IF attempt < 3
         THEN pc' = FirstPc(call.op) /\ attempt' = attempt + 1
         ELSE pc' = "done" /\ ~result'.ok]_vars

\* C23: describe_topic swallows no failure: it returns a description only
\* if the metadata lookup and the configuration lookup both succeeded; when
\* the configuration lookup fails the caller receives an error, never a
\* description with an empty configuration.
C23_ConfigLookupFailurePropagated ==
  Done("describe_topic") =>
    /\ result.ok => stats.lookup = "ok"
    /\ stats.lookup = "failed" => ~result.ok

\* C24: describe_topic(n) returns at every call exactly the configuration
\* entries of n that are not at cluster default at the time of the call,
\* with n's current partition count and replication factor: nothing is
\* kept from an earlier call, so that after an alter_topic_config the
\* altered values are returned.
C24_DescribeReflectsCluster ==
  (Done("describe_topic") /\ result.ok)
    => /\ result.value.config = NonDefault(ConfigResult(cluster[call.name]))
       /\ result.value.partitions = cluster[call.name].partitions
       /\ result.value.replication_factor =
            cluster[call.name].replication_factor

\* An argument as given, or the default when it is omitted.
Given(x, default) == IF x = None THEN default ELSE x[1]

\* The request that create_topic is to submit for the running call, as the
\* cluster keeps it.
Requested ==
  Stored(Given(call.partitions, settings.default_partitions),
         Given(call.replication_factor, settings.default_replication_factor),
         merge_configs(get_profile(call.profile).value, call.config))

\* C25: create_topic on a name that does not exist, with valid arguments,
\* submits a create request with the given name, the given partitions and
\* replication factor (the defaults of the settings when omitted) and the
\* configuration merge_configs(get_profile(profile), overrides): exactly
\* one request when its remote calls all succeed, and whatever fails no
\* other topic than the requested one appears under the name.  For
\* general_throughput without overrides the configuration holds
\* min.insync.replicas=2, compression.type=snappy, retention.ms=259200000.
C25_CreateSubmitsOneRequest ==
  (/\ call.op = "create_topic"
   /\ ~before.cluster[call.name].exists
   /\ Validation.ok
   /\ ~ExplicitBelowOne)
    => /\ cluster \in {before.cluster,
                       [before.cluster EXCEPT ![call.name] = Requested]}
       /\ (pc = "done" /\ FaultFree)
            => /\ result.ok
               /\ stats.submit = 1
               /\ made[call.name].known
               /\ made[call.name].topic = Requested
               /\ cluster = [before.cluster EXCEPT ![call.name] = Requested]
       /\ (call.profile = "general_throughput" /\ call.config = NoConfig)
            => /\ Requested.config["min.insync.replicas"] = StrV("2")
               /\ Requested.config["compression.type"] = StrV("snappy")
               /\ Requested.config["retention.ms"] = StrV("259200000")

\* C25 happens: a create_topic with explicit partitions has made the
\* topic with one create request.
C25_Witness ==
  /\ Done("create_topic")
  /\ ~before.cluster[call.name].exists
  /\ Validation.ok
  /\ FaultFree
  /\ result.ok
  /\ stats.submit = 1
  /\ call.partitions = Some(MaxExplicit)
  /\ cluster[call.name].partitions = MaxExplicit

\* C26: the built-in profile catalog is never modified: whatever
\* get_profile, merge_configs and create_topic calls were made, and however
\* the caller changed the mappings they returned, get_profile(name) returns
\* for each of the four built-in names the mapping of the catalog as it
\* was at the start.
C26_CatalogNeverModified ==
  \A name \in DOMAIN TOPIC_PROFILES :
    get_profile(name) = Ok(TOPIC_PROFILES[name])

\* C26 happens: get_profile has returned a mapping with the entries of the
\* catalog, after the caller changed the mapping that an earlier
\* get_profile returned.
C26_Witness ==
  /\ Done("get_profile")
  /\ result.ok
  /\ "profile_config" \in DOMAIN before.heap
  /\ \A name \in DOMAIN TOPIC_PROFILES :
       before.heap["profile_config"] # TOPIC_PROFILES[name]
  /\ heap[result.value] = TOPIC_PROFILES[call.name]

\* C27: merge_configs(p, o) has the keys of p and of o, maps every key of
\* o to o's value and every other key to p's value (no key is dropped, and
\* merge_configs(p, {}) equals p), and modifies neither p nor o.
C27_MergeIsRightBiasedUnion ==
  Done("merge_configs") =>
    LET p == before.heap[call.profile_config]
        o == before.heap[call.overrides]
        merged == heap[result.value]
    IN  /\ result.ok
        /\ DOMAIN merged = DOMAIN p \cup DOMAIN o
        /\ \A k \in DOMAIN o : merged[k] = o[k]
        /\ \A k \in DOMAIN p \ DOMAIN o : merged[k] = p[k]
        /\ DOMAIN o = {} => merged = p
        /\ heap[call.profile_config] = p
        /\ heap[call.overrides] = o

\* C27 happens: merge_configs has merged overrides that replace an entry of
\* the profile, while the profile has entries that the overrides leave.
C27_Witness ==
  /\ Done("merge_configs")
  /\ result.ok
  /\ \E k \in DOMAIN before.heap[call.overrides] :
       /\ k \in DOMAIN before.heap[call.profile_config]
       /\ before.heap[call.profile_config][k] # before.heap[call.overrides][k]
       /\ heap[result.value][k] = before.heap[call.overrides][k]
  /\ DOMAIN before.heap[call.profile_config]
       \ DOMAIN before.heap[call.overrides] # {}

\* C28: for all integer pairs (m, r), validate_config on a configuration
\* with min.insync.replicas = m and replication factor r fails when m >= r;
\* when m < r it fails exactly when compression.type is outside {none, gzip,
\* snappy, lz4, zstd}; unclean.leader.election.enable = true only produces
\* a warning and never makes it fail.
C28_ValidateConfigRules ==
  (Done("validate_config") /\ "min.insync.replicas" \in DOMAIN call.config)
    => LET m == IntOfLit(call.config["min.insync.replicas"][2])
           r == call.replication_factor
           compression ==
             IF "compression.type" \in DOMAIN call.config
               THEN call.config["compression.type"][2] ELSE "none"
           unclean ==
             /\ "unclean.leader.election.enable" \in DOMAIN call.config
             /\ call.config["unclean.leader.election.enable"] = BoolV("True")
       IN  /\ m >= r => ~result.ok
           /\ m < r =>
                (~result.ok <=>
                   compression \notin {"none", "gzip", "snappy", "lz4", "zstd"})
           /\ (unclean /\ result.ok) => result.warnings = {UncleanWarning}
           /\ (~unclean /\ result.ok) => result.warnings = {}

\* C28 happens: validate_config has accepted a configuration with
\* min.insync.replicas one below the replication factor and
\* unclean.leader.election.enable = true, with a warning.
C28_Witness ==
  /\ Done("validate_config")
  /\ "min.insync.replicas" \in DOMAIN call.config
  /\ IntOfLit(call.config["min.insync.replicas"][2]) + 1
       = call.replication_factor
  /\ "unclean.leader.election.enable" \in DOMAIN call.config
  /\ call.config["unclean.leader.election.enable"] = BoolV("True")
  /\ result.ok
  /\ result.warnings # {}

FirstCodePoint(name) ==
  CASE name = "Orders Already Exists" -> 79
    [] name = "__offsets"             -> 95
    [] name = "orders"                -> 111

\* C30: list_topics returns the names of all topics of the cluster that do
\* not start with '__', each once, in ascending order, and leaves the
\* cluster unchanged.
C30_ListIsSortedUserTopics ==
  Done("list_topics")
    => /\ cluster = before.cluster
       /\ result.ok
            => /\ {result.value[i] : i \in DOMAIN result.value}
                    = {n \in Names : cluster[n].exists /\ n # "__offsets"}
               /\ \A i, j \in DOMAIN result.value :
                    i < j => FirstCodePoint(result.value[i])
                               < FirstCodePoint(result.value[j])

\* C30 happens: list_topics has returned two names while the cluster also
\* holds a topic with the internal prefix.
C30_Witness ==
  /\ Done("list_topics")
  /\ result.ok
  /\ Len(result.value) = 2
  /\ cluster["__offsets"].exists

\* The operation the command called has raised.
OperationRaised == call.op # "none" /\ ~result.ok

\* What a command printed is a structured result that reports success
\* (a health report counts when it says "healthy").
SuccessResult(printed) ==
  /\ "status" \in DOMAIN printed
  /\ printed.status \in {"success", "healthy"}

\* C31: a command ends with exit code 1 and a structured error result when
\* its operation raised, and with exit code 0 and a structured success
\* result otherwise.
C31_ExitCodeMatchesOutcome ==
  process.ended
    => IF OperationRaised
         THEN /\ process.exit_code = 1
              /\ "status" \in DOMAIN process.printed
              /\ process.printed.status = "error"
         ELSE /\ process.exit_code = 0
              /\ SuccessResult(process.printed)

\* The wait after the attempt_number-th failed attempt of op is between
\* the operation's floor and ceiling and, from the second wait on, twice
\* the wait before it or the ceiling, whichever is smaller.
Backoff(release, op, attempt_number) ==
  LET w        == Wait(release, op, attempt_number)
      previous == Wait(release, op, attempt_number - 1)
      ceiling  == WaitBounds(op).max
  IN  /\ WaitBounds(op).min <= w
      /\ w <= ceiling
      /\ attempt_number > 1
           => w = IF 2 * previous < ceiling THEN 2 * previous ELSE ceiling

\* C32: within one invocation the wait before each retry is at least the
\* operation's floor (2 or 4) and at most its ceiling (8 or 10), and it
\* doubles from one retry to the next until it reaches the ceiling.
C32_BackoffDoubles ==
  [][\A release \in Releases :
       /\ attempt' = attempt + 1 => Backoff(release, call.op, attempt)
       /\ lattempt' = lattempt + 1
            => Backoff(release, "list_topics", lattempt)]_vars

\* C33: the attempt counter belongs to one invocation: whatever the
\* invocation before it did, an invocation starts at attempt 1, gives up
\* only when its third attempt has failed, and waits the floor before its
\* second attempt.
C33_AttemptsPerInvocation ==
  [][/\ (~Running /\ Running') => (attempt' = 1 /\ lattempt' = 1)
     /\ (Running /\ pc' = "done" /\ ~result'.ok
           /\ result'.err.type = "RetryError")
          => attempt = 3
     /\ (attempt = 1 /\ attempt' = 2)
          => \A release \in Releases :
               Wait(release, call.op, 1) = WaitBounds(call.op).min]_vars

\* C33 happens: on a client that earlier invocations have used (one of
\* them created the topic), an invocation is at its second attempt.
C33_Witness ==
  /\ Running
  /\ before.admin_client = "AdminClient"
  /\ attempt = 2
  /\ made[focus].known

\* C34: check_compatibility is read-only: whatever its result, the
\* registry's schemas, versions and version metadata are after the call
\* what they were before it.
C34_CheckCompatibilityReadOnly ==
  Done("check_compatibility") => registry = before.registry

\* Both clients have made their call of op, and both calls are over.
BothDone(op) ==
  /\ pc = "done"
  /\ peer.pc = "done"
  /\ call.op = op
  /\ peer.call.op = op

\* C35: two clients call create_topic(n, ...) for a name that is not on the
\* cluster; however their existence checks and create requests interleave,
\* both calls return success, topic n exists afterwards, and the cluster
\* has accepted exactly one of the create requests.
C35_ConcurrentCreatesSucceed ==
  (BothDone("create_topic")
     /\ (~before.cluster[focus].exists \/ ~peer.before.cluster[focus].exists))
    => /\ result.ok
       /\ peer.result.ok
       /\ cluster[focus].exists
       /\ (stats.ack = "acknowledged") # (peer.stats.ack = "acknowledged")

\* C35 happens: both clients passed the existence check before either
\* request arrived, and the cluster refused the second request.
C35_Witness ==
  /\ BothDone("create_topic")
  /\ result.ok
  /\ peer.result.ok
  /\ {stats.ack, peer.stats.ack} = {"acknowledged", "conflict"}

\* C36: two clients call delete_topic(n) on a topic that is on the cluster;
\* however their existence checks and delete requests interleave, both
\* calls return success and topic n is not on the cluster afterwards.
C36_ConcurrentDeletesSucceed ==
  (BothDone("delete_topic")
     /\ (before.cluster[focus].exists \/ peer.before.cluster[focus].exists))
    => /\ result.ok
       /\ peer.result.ok
       /\ ~cluster[focus].exists

\* C37: when two threads make their first use of a new client instance,
\* at most one connection is built and both threads get the same handle.
C37_OneConnectionForTwoThreads ==
  /\ constructed.admin_client <= 1
  /\ constructed.glue_client <= 1
  /\ (pc = "done" /\ peer.pc = "done" /\ result.ok /\ peer.result.ok)
       => result.value = peer.result.value

\* An earlier attempt of the running create_topic made the cluster create
\* the topic, and its wait for the acknowledgment failed.
CreatedUnacknowledged ==
  /\ call.op = "create_topic"
  /\ ~before.cluster[call.name].exists
  /\ cluster[call.name].exists
  /\ stats.ack = "failed"

\* C38: when an attempt of create_topic failed waiting for the
\* acknowledgment although the cluster created the topic, the next attempt
\* whose existence check is answered returns success there and submits no
\* second create request.
C38_RetryFindsCreatedTopic ==
  [][/\ (CreatedUnacknowledged /\ pc = "list" /\ stats'.listing = "ok")
          => (pc' = "done" /\ result'.ok /\ stats'.submit = stats.submit)
     /\ CreatedUnacknowledged => pc # "submit"]_vars

\* C39: success reports match the cluster. Whenever create_topic(n) has
\* returned success, topic n is on the cluster; whenever delete_topic(n) has
\* returned success, topic n is not on the cluster; for every name n, the
\* names with the internal prefix and the names that hold the text
\* 'already exists' included. The caller is the only actor.
C39_SuccessMatchesCluster ==
  /\ (Done("create_topic") /\ result.ok) => cluster[call.name].exists
  /\ (Done("delete_topic") /\ result.ok) => ~cluster[call.name].exists

\* C40: for every Settings object that the Settings validators accepted,
\* with default_min_insync_replicas below default_replication_factor,
\* create_topic with the replication factor left out, the default profile
\* and no overrides passes the validation of the configuration.
C40_AcceptedSettingsPassValidation ==
  (/\ call.op = "create_topic"
   /\ call.replication_factor = None
   /\ call.profile = "general_throughput"
   /\ call.config = NoConfig
   /\ settings.default_min_insync_replicas
        < settings.default_replication_factor)
    => Validation.ok

=============================================================================
